---------------------------- MODULE Spec2Model ----------------------------
(***************************************************************************)
(* isuports: per-tenant score ingestion, ranking, billing, the entity      *)
(* caches, the ID dispenser and the visit-history recorder.                *)
(*                                                                         *)
(* Request handlers run as goroutines: every handler is a sequence of      *)
(* steps that access shared state (a cache, a table, the tenant lock, the  *)
(* ID counter), and steps of different requests interleave.  The row store *)
(* is modelled as tables (sets of rows), a helpisu.Cache as a function     *)
(* whose domain is the set of cached keys.                                 *)
(***************************************************************************)
EXTENDS Integers, Sequences, FiniteSets, TLC

(* ---------------------------- bounds ----------------------------------- *)

\* largest value the ID counter may reach
MaxId == 3
\* most visit events recorded before another ranking request starts
MaxBuf == 2
\* most restarts of the process
MaxRestarts == 1
\* most calls of initializeHandler
MaxInits == 2
\* most keys compFinishCache holds when a finish handler reads it
MaxFinish == 1

(* ---------------------------- domains ---------------------------------- *)

\* request slots (goroutines serving requests at the same time)
Procs == {1, 2}
\* tenant ids; the competitions of tenant 1 are "1a" and "b", tenant 11 has "a"
Tenants == {1, 11}
Players == {1, 2, 3}
Scores == {50, 80}

\* an optional value: <<>> is "absent", <<v>> is "present"
None == <<>>
Some(v) == <<v>>
IsSome(o) == Len(o) = 1
Val(o) == o[1]

Max(a, b) == IF a >= b THEN a ELSE b
Min(a, b) == IF a <= b THEN a ELSE b

\* sql.NullInt64
NullInt64 == [Valid |-> FALSE, Int64 |-> 0]
ValidInt64(n) == [Valid |-> TRUE, Int64 |-> n]

(* ---------------------------- state ------------------------------------ *)

VARIABLES
  curId,              \* the ID counter (part_000:51)
  idLog,              \* history: the ids dispenseID has returned, in return order
  now,                \* the clock (time.Now().Unix()); it stands still in the
                      \* behaviours checked here
  player,             \* tenant DB table player: tenant -> set of PlayerRow
  competition,        \* tenant DB table competition: tenant -> set of CompetitionRow
  player_score,       \* tenant DB table player_score: tenant -> set of PlayerScoreRow
  visit_history,      \* admin DB table visit_history: set of VisitHistoryRow
  playerCache,        \* cache: player id -> PlayerRow
  competitionCache,   \* cache: competition id -> CompetitionRow
  vhsCache,           \* cache: tenant id -> visit summary rows
  scoredPlayerCache,  \* cache: tenant id -> scored players
  billingReportCache, \* cache: key -> BillingReport
  compFinishCache,    \* cache: 0 -> sequence of billing report keys
  visitHistories,     \* cache: 0 -> sequence of VisitHistoryRow
  flockHolder,        \* lock file -> optional request slot holding its lock
  pc,                 \* request slot -> position in its handler
  loc,                \* request slot -> the handler's local variables
  resp,               \* request slot -> optional response of the finished handler
  tickers,            \* number of ticker pairs initializeHandler has started
  evicting,           \* keys a running updateCompetitionFinish has still to delete
  initialData,        \* the tables the initialize script restores
  id_generator,       \* admin DB table id_generator: the id of its row
  dispenseUpdates,    \* number of dispenseUpdate goroutines waiting for their tick
  flush,              \* delayedInsertVisitHistory: its position and its local slice
  visits,             \* history of the visit events: how many were recorded,
                      \* the batches handed to the INSERT, the events of the
                      \* buffer since it was last emptied
  faults              \* the failures the environment produces in this run:
                      \* "flock" (flock.Lock returns an error), "db" (a
                      \* statement on the tenant DB returns an error)

vars == <<curId, idLog, now, player, competition, player_score, visit_history,
          playerCache, competitionCache, vhsCache, scoredPlayerCache,
          billingReportCache, compFinishCache, visitHistories, flockHolder,
          pc, loc, resp, tickers, evicting, initialData, id_generator,
          dispenseUpdates, flush, visits, faults>>

dbVars == <<player, competition, player_score, visit_history>>
cacheVars == <<playerCache, competitionCache, vhsCache, scoredPlayerCache,
               billingReportCache, compFinishCache>>

taskVars == <<tickers, evicting, initialData, id_generator, dispenseUpdates, flush,
              visits, faults>>

NoLoc == [op |-> "idle"]

\* delayedInsertVisitHistory is not running; err is history: the INSERT of
\* the last call failed
NoFlush == [pc |-> "idle", visitHistory |-> <<>>, err |-> FALSE]

\* no visit event has been recorded; resets: the number of events recorded
\* before each call of initializeHandler; clean: since the buffer was last
\* emptied no record has overlapped a flush or a reset
NoVisits ==
  [events |-> 0, batches |-> <<>>, resets |-> <<>>, pending |-> {}, clean |-> TRUE]

(* ---------------------------- ID dispenser ----------------------------- *)

HexDigits == <<"0", "1", "2", "3", "4", "5", "6", "7",
               "8", "9", "a", "b", "c", "d", "e", "f">>

\* fmt.Sprintf("%x", n)
RECURSIVE Hex(_)
Hex(n) ==
  IF n < 0 THEN "-" \o Hex(0 - n)
  ELSE IF n < 16 THEN HexDigits[n + 1]
  ELSE Hex(n \div 16) \o HexDigits[(n % 16) + 1]


DecDigits == <<"0", "1", "2", "3", "4", "5", "6", "7", "8", "9">>

\* strconv.Itoa(n), fmt.Sprintf("%d", n)
RECURSIVE Itoa(_)
Itoa(n) ==
  IF n < 0 THEN "-" \o Itoa(0 - n)
  ELSE IF n < 10 THEN DecDigits[n + 1]
  ELSE Itoa(n \div 10) \o DecDigits[(n % 10) + 1]

\* mutant: one lock file for all tenants
LockFilePathShared(id) == "../tenant_db/" \o "tenant.lock"

\* filepath.Join(tenantDBDir, fmt.Sprintf("%d.lock", id))
LockFilePath(id) == "../tenant_db/" \o Itoa(id) \o ".lock"

\* the lock files of the tenants
LockFiles == {LockFilePath(t) : t \in Tenants}

(* ---------------------------- helpisu.Cache ---------------------------- *)
\* A cache is a function whose domain is the set of cached keys.

EmptyCache == <<>>
CacheHas(cache, k) == k \in DOMAIN cache
CacheSet(cache, k, v) == [x \in (DOMAIN cache) \cup {k} |-> IF x = k THEN v ELSE cache[x]]
CacheDelete(cache, k) == [x \in (DOMAIN cache) \ {k} |-> cache[x]]

(* ---------------------------- row store -------------------------------- *)

PlayerRow(t, id, dq) == [tenant_id |-> t, id |-> id, is_disqualified |-> dq]
CompetitionRow(t, id, fin, created) ==
  [tenant_id |-> t, id |-> id, finished_at |-> fin, created_at |-> created]

\* SELECT * FROM player WHERE id = ?  (sql.ErrNoRows when the set is empty)
SelectPlayer(t, id) == {r \in player[t] : r.id = id}
\* SELECT * FROM competition WHERE id = ?
SelectCompetition(t, id) == {r \in competition[t] : r.id = id}

\* the rows the initial data holds
InitPlayer == [t \in Tenants |->
  IF t = 1 THEN {PlayerRow(1, i, FALSE) : i \in Players} ELSE {PlayerRow(t, 1000, FALSE)}]
InitCompetition == [t \in Tenants |->
  IF t = 1 THEN {CompetitionRow(1, c, NullInt64, 0) : c \in {"1a", "b"}}
  ELSE {CompetitionRow(t, "a", NullInt64, 0)}]

InitBase ==
  /\ curId = -1
  /\ idLog = <<>>
  /\ now = 0
  /\ player = InitPlayer
  /\ competition = InitCompetition
  /\ player_score = [t \in Tenants |-> {}]
  /\ visit_history = {}
  /\ playerCache = EmptyCache
  /\ competitionCache = EmptyCache
  /\ vhsCache = EmptyCache
  /\ scoredPlayerCache = EmptyCache
  /\ billingReportCache = EmptyCache
  /\ compFinishCache = EmptyCache
  /\ visitHistories = EmptyCache
  /\ flockHolder = [f \in LockFiles |-> None]
  /\ pc = [p \in Procs |-> "idle"]
  /\ loc = [p \in Procs |-> NoLoc]
  /\ resp = [p \in Procs |-> None]
  /\ tickers = 0
  /\ evicting = <<>>
  /\ flush = NoFlush
  /\ visits = NoVisits
  /\ faults = {}
  /\ id_generator = 0
  /\ dispenseUpdates = 0
  /\ initialData = [player |-> player, competition |-> competition,
                    player_score |-> player_score, visit_history |-> visit_history]

\* the handler of slot p returns r
Return(p, r) ==
  /\ pc' = [pc EXCEPT ![p] = "done"]
  /\ resp' = [resp EXCEPT ![p] = Some(r)]

\* the response is written and the slot serves the next request
Finish(p) ==
  /\ pc[p] = "done"
  /\ pc' = [pc EXCEPT ![p] = "idle"]
  /\ loc' = [loc EXCEPT ![p] = NoLoc]
  /\ resp' = [resp EXCEPT ![p] = None]
  /\ UNCHANGED <<taskVars, curId, idLog, now, dbVars, cacheVars, visitHistories, flockHolder>>

(* ------------------- dispenseID and competitionsAddHandler ------------- *)

\* POST /api/organizer/competitions/add, up to the call of dispenseID
CompetitionsAddStart(p, t) ==
  /\ pc[p] = "idle"
  /\ pc' = [pc EXCEPT ![p] = "add_inc"]
  /\ loc' = [loc EXCEPT ![p] = [op |-> "add", tenant |-> t, created |-> now,
                                seen |-> Len(idLog)]]
  /\ UNCHANGED <<taskVars, curId, idLog, now, dbVars, cacheVars, visitHistories,
                 flockHolder, resp>>

\* the value curId has after  dispenseMu.Lock(); curId += 1; dispenseMu.Unlock().
\* The load of the persisted value before it (adminDB.Get(curId, ...)) is
\* handed curId by value, so it cannot assign it.
IncrementedId(cur) == cur + 1

\* if curId == -1 { adminDB.Get(curId, "SELECT id FROM id_generator ...") }:
\* Get is handed the value of curId, not its address; it returns an error,
\* which is dropped, and curId is what it was
LoadedId(cur, persisted) == cur

DispenseInc(p) ==
  /\ pc[p] = "add_inc"
  /\ curId < MaxId
  /\ curId' = IncrementedId(LoadedId(curId, id_generator))
  /\ pc' = [pc EXCEPT ![p] = "add_read"]
  /\ UNCHANGED <<taskVars, idLog, now, dbVars, cacheVars, visitHistories, flockHolder,
                 loc, resp>>

\* return fmt.Sprintf("%x", curId), nil : curId is read after the unlock
DispenseRead(p) ==
  /\ pc[p] = "add_read"
  /\ loc' = [loc EXCEPT ![p] = [id |-> Hex(curId)] @@ @]
  /\ idLog' = Append(idLog, [n |-> curId, id |-> Hex(curId), seen |-> loc[p].seen])
  /\ pc' = [pc EXCEPT ![p] = "add_insert"]
  /\ UNCHANGED <<taskVars, curId, now, dbVars, cacheVars, visitHistories, flockHolder, resp>>

\* INSERT INTO competition ...: id is the table's primary key
CompetitionsAddInsert(p) ==
  /\ pc[p] = "add_insert"
  /\ LET t == loc[p].tenant
         id == loc[p].id
     IN IF SelectCompetition(t, id) # {}
        THEN /\ Return(p, [status |-> 500, op |-> "add"])
             /\ UNCHANGED competition
        ELSE /\ competition' = [competition EXCEPT ![t] =
                    @ \cup {CompetitionRow(t, id, NullInt64, loc[p].created)}]
             /\ Return(p, [status |-> 200, op |-> "add", id |-> id])
  /\ UNCHANGED <<taskVars, curId, idLog, now, player, player_score, visit_history,
                 cacheVars, visitHistories, flockHolder, loc>>

NextID ==
  \/ \E p \in Procs, t \in Tenants : CompetitionsAddStart(p, t)
  \/ \E p \in Procs : DispenseInc(p)
  \/ \E p \in Procs : DispenseRead(p)
  \/ \E p \in Procs : CompetitionsAddInsert(p)
  \/ \E p \in Procs : Finish(p)

SpecID == InitBase /\ [][NextID]_vars

\* C2: no two calls of dispenseID return the same id, and a call that starts
\* after another call has returned gets a strictly larger id.
C2_UniqueIncreasing ==
  \A i, j \in 1..Len(idLog) :
    i < j => /\ idLog[i].id # idLog[j].id
             /\ (idLog[j].seen >= i => idLog[j].n > idLog[i].n)


(* ---------------------------- ranking ---------------------------------- *)

\* the page size of competitionRankingHandler
PageSize == 100

PlayerScoreRow(t, pid, cid, score, rn) ==
  [tenant_id |-> t, player_id |-> pid, competition_id |-> cid,
   score |-> score, row_num |-> rn]

\* the rows of  SELECT * FROM player_score WHERE tenant_id = ? AND competition_id = ?
SelectPlayerScore(t, cid) ==
  {r \in player_score[t] : r.tenant_id = t /\ r.competition_id = cid}

\* a slice holding the elements of the sequence s
AsSlice(s) == s \o <<>>

\* mutant: ORDER BY row_num ASC
OrderByRowNumAsc(rows) ==
  LET before(r) == Cardinality({q \in rows : q.row_num < r.row_num})
  IN AsSlice([i \in 1..Cardinality(rows) |->
        CHOOSE r \in rows : before(r) = i - 1])

\* ... ORDER BY row_num DESC: the row at position i has i - 1 rows before it,
\* those of a larger row number (rows of equal row number: in some order)
OrderByRowNumDesc(rows) ==
  LET before(r) == Cardinality({q \in rows : q.row_num > r.row_num})
      tied(r) == {q \in rows : q.row_num = r.row_num}
      order(S) == CHOOSE f \in [1..Cardinality(S) -> S] :
                    \A x, y \in 1..Cardinality(S) : x # y => f[x] # f[y]
  IN AsSlice([i \in 1..Cardinality(rows) |->
        CHOOSE r \in rows :
          /\ before(r) < i
          /\ i <= before(r) + Cardinality(tied(r))
          /\ \/ Cardinality(tied(r)) = 1
             \/ r = order(tied(r))[i - before(r)]])

\* the loop over pss: a row is skipped when its player is in scoredPlayerSet
\* already, that is when an earlier row of pss has the same player
ScoredRanks(pss) ==
  LET indexed == [i \in 1..Len(pss) |-> [i |-> i, ps |-> pss[i]]]
      first(e) == \A j \in 1..(e.i - 1) : pss[j].player_id # e.ps.player_id
      kept == SelectSeq(indexed, first)
  IN AsSlice([k \in 1..Len(kept) |-> [Score |-> kept[k].ps.score,
                                      PlayerID |-> kept[k].ps.player_id,
                                      RowNum |-> kept[k].ps.row_num]])

\* mutant: equal scores are ordered by descending row number
RankLessRowNumDesc(a, b) ==
  IF a.Score = b.Score THEN a.RowNum > b.RowNum ELSE a.Score > b.Score

\* the less function handed to sort.Slice
RankLess(a, b) ==
  IF a.Score = b.Score THEN a.RowNum < b.RowNum ELSE a.Score > b.Score

\* sort.Slice(ranks, less): the element at position i has i - 1 elements
\* before it (elements neither less than the other keep their order)
SortRanks(ranks) ==
  LET n == Len(ranks)
      pos == [k \in 1..n |->
                1 + Cardinality({j \in 1..n :
                      \/ RankLess(ranks[j], ranks[k])
                      \/ j < k /\ ~RankLess(ranks[k], ranks[j])})]
  IN AsSlice([i \in 1..n |-> ranks[CHOOSE k \in 1..n : pos[k] = i]])

\* the entry of ranks at the 0-based index i, with its 1-based rank
RankedAt(ranks, i) ==
  [Rank |-> i + 1, Score |-> ranks[i + 1].Score, PlayerID |-> ranks[i + 1].PlayerID]

\* mutant: the entry at index rankAfter is skipped too
PagedRanksSkipOneMore(ranks, rankAfter) ==
  LET first == Max(rankAfter + 1, 0)
      n == Max(Min(Len(ranks) - first, PageSize), 0)
  IN AsSlice([k \in 1..n |-> RankedAt(ranks, first + k - 1)])

\* the loop that builds pagedRanks: the indexes i < rankAfter are skipped,
\* every later entry is appended with rank i + 1, and the loop breaks once
\* pagedRanks holds PageSize entries; first is the first index appended
PagedRanks(ranks, rankAfter) ==
  LET first == Max(rankAfter, 0)
      n == Max(Min(Len(ranks) - first, PageSize), 0)
  IN AsSlice([k \in 1..n |-> RankedAt(ranks, first + k - 1)])


(* ---------------------------- shared helpers --------------------------- *)

\* retrievePlayer: the cached row, else the row of the tenant DB; None is
\* sql.ErrNoRows
RetrievePlayer(cache, t, id) ==
  IF CacheHas(cache, id) THEN Some(cache[id])
  ELSE IF SelectPlayer(t, id) = {} THEN None
       ELSE Some(CHOOSE r \in SelectPlayer(t, id) : TRUE)

\* the cache after retrievePlayer has run for the ids of found
CachedPlayers(cache, t, found) ==
  [x \in (DOMAIN cache) \cup found |-> Val(RetrievePlayer(cache, t, x))]

\* retrievePlayer for ids[1], ids[2], ... in turn, stopping at the first
\* error (failed: the positions whose player is not found); every row found
\* is stored in the cache
RetrievedUpTo(cache, t, ids, failed) ==
  [ok |-> failed = {},
   cache |-> CachedPlayers(cache, t,
               {ids[i] : i \in {k \in 1..Len(ids) : \A j \in failed : k < j}})]

RetrievePlayers(cache, t, ids) ==
  RetrievedUpTo(cache, t, ids,
                {i \in 1..Len(ids) : RetrievePlayer(cache, t, ids[i]) = None})

\* flockByTenantID: flock.New(p).Lock() blocks while another descriptor holds
\* the tenant's lock file
\* mutant: the lock is taken without waiting for its holder
FlockNeverHeld(t) == flockHolder[LockFilePath(t)] = flockHolder[LockFilePath(t)]
FlockFree(t) == flockHolder[LockFilePath(t)] = None
FlockAcquired(p, t) == [flockHolder EXCEPT ![LockFilePath(t)] = Some(p)]
\* mutant: the lock file stays locked
FlockKept(t) == flockHolder

\* fl.Close()
FlockClosed(t) == [flockHolder EXCEPT ![LockFilePath(t)] = None]

\* the results of fl.Lock(): TRUE is the lock, FALSE an error
FlockOutcomes == IF "flock" \in faults THEN {TRUE, FALSE} ELSE {TRUE}
\* the results of a statement on a database: FALSE is an error
DbOutcomes == IF "db" \in faults THEN {TRUE, FALSE} ELSE {TRUE}

\* mutant: the error of flockByTenantID is ignored
FlockDeniedIgnored(p, op, next) ==
  /\ pc' = [pc EXCEPT ![p] = next]
  /\ UNCHANGED <<resp, flockHolder>>

\* if err != nil { return fmt.Errorf("error flockByTenantID: %w", err) }
\* (next is the step the handler would go on with)
FlockDenied(p, op, next) ==
  /\ Return(p, [status |-> 500, op |-> op, err |-> "error flockByTenantID"])
  /\ UNCHANGED flockHolder

\* fl, err := flockByTenantID(tenantID) in the handler op of slot p
FlockByTenantID(p, op, next) ==
  \E ok \in FlockOutcomes :
    IF ok
    THEN /\ FlockFree(loc[p].tenant)
         /\ flockHolder' = FlockAcquired(p, loc[p].tenant)
         /\ pc' = [pc EXCEPT ![p] = next]
         /\ UNCHANGED resp
    ELSE FlockDenied(p, op, next)

VisitHistoryRow(pid, t, cid, at) ==
  [player_id |-> pid, tenant_id |-> t, competition_id |-> cid, created_at |-> at]

\* visitHistories.Get(0): the zero value (a nil slice) when nothing is stored
VisitBuffer == IF CacheHas(visitHistories, 0) THEN visitHistories[0] ELSE <<>>

\* a ranking request is between its visitHistories.Get and its visitHistories.Set
RecordInFlight == \E p \in Procs : pc[p] = "rk_visit_set"
\* delayedInsertVisitHistory is between its visitHistories.Get and its Set
FlushInFlight == flush.pc # "idle"

\* the history of the visit events at the steps that touch the buffer
VisitsAtRecordGet ==
  [visits EXCEPT !.clean = @ /\ ~FlushInFlight /\ ~RecordInFlight]
VisitsAtRecordSet ==
  [visits EXCEPT !.events = @ + 1, !.pending = @ \cup {visits.events + 1}]
VisitsAtFlushGet == [visits EXCEPT !.clean = @ /\ ~RecordInFlight]
VisitsAtFlushInsert(batch) ==
  [visits EXCEPT !.batches =
     IF batch = <<>> THEN @
     ELSE Append(@, [ids |-> [i \in 1..Len(batch) |-> batch[i].ev], inits |-> tickers])]
VisitsAtFlushSet == [visits EXCEPT !.pending = {}, !.clean = ~RecordInFlight]
VisitsAtReset ==
  [visits EXCEPT !.resets = Append(@, visits.events), !.pending = {},
                 !.clean = ~RecordInFlight /\ ~FlushInFlight]

\* the event appended to the buffer: the row and the number of the event (ev
\* is history, it tells two events with equal rows apart)
VisitEvent(row) == [ev |-> visits.events + 1] @@ row

CompetitionDetail(comp) == [ID |-> comp.id, IsFinished |-> comp.finished_at.Valid]

(* ---------------------- competitionRankingHandler ---------------------- *)

\* GET /api/player/competition/:competition_id/ranking?rank_after=
\* ra is the parsed rank_after: [ok |-> FALSE] when strconv.ParseInt fails.
\* authorizePlayer and the lookup of retrieveCompetition.
RankingStart(p, t, viewer, cid, ra) ==
  /\ pc[p] = "idle"
  /\ visits.events < MaxBuf
  /\ LET pl == RetrievePlayer(playerCache, t, viewer)
         l == [op |-> "ranking", tenant |-> t, viewer |-> viewer, cid |-> cid,
               ra |-> ra]
     IN IF pl = None
        THEN /\ Return(p, [status |-> 401, op |-> "ranking"])
             /\ UNCHANGED <<playerCache, loc>>
        ELSE /\ playerCache' = CacheSet(playerCache, viewer, Val(pl))
             /\ IF Val(pl).is_disqualified
                THEN /\ Return(p, [status |-> 403, op |-> "ranking"])
                     /\ UNCHANGED loc
                ELSE IF CacheHas(competitionCache, cid)
                THEN /\ loc' = [loc EXCEPT ![p] = [comp |-> competitionCache[cid]] @@ l]
                     /\ pc' = [pc EXCEPT ![p] = "rk_visit_get"]
                     /\ UNCHANGED resp
                ELSE IF SelectCompetition(t, cid) = {}
                THEN /\ Return(p, [status |-> 404, op |-> "ranking"])
                     /\ UNCHANGED loc
                ELSE /\ loc' = [loc EXCEPT ![p] =
                          [comp |-> CHOOSE r \in SelectCompetition(t, cid) : TRUE] @@ l]
                     /\ pc' = [pc EXCEPT ![p] = "rk_comp_set"]
                     /\ UNCHANGED resp
  /\ UNCHANGED <<taskVars, curId, idLog, now, dbVars, competitionCache, vhsCache,
                 scoredPlayerCache, billingReportCache, compFinishCache,
                 visitHistories, flockHolder>>

\* retrieveCompetition after a miss: competitionCache.Set(id, c)
RankingCompSet(p) ==
  /\ pc[p] = "rk_comp_set"
  /\ competitionCache' = CacheSet(competitionCache, loc[p].cid, loc[p].comp)
  /\ pc' = [pc EXCEPT ![p] = "rk_visit_get"]
  /\ UNCHANGED <<taskVars, curId, idLog, now, dbVars, playerCache, vhsCache,
                 scoredPlayerCache, billingReportCache, compFinishCache,
                 visitHistories, flockHolder, loc, resp>>

\* now := time.Now().Unix(); tenantCache is never filled, so the tenant row is
\* read from the admin DB; visitHistory, _ := visitHistories.Get(0)
RankingVisitGet(p) ==
  /\ pc[p] = "rk_visit_get"
  /\ loc' = [loc EXCEPT ![p] = [now |-> now, visitHistory |-> VisitBuffer] @@ @]
  /\ pc' = [pc EXCEPT ![p] = "rk_visit_set"]
  /\ visits' = VisitsAtRecordGet
  /\ UNCHANGED <<tickers, evicting, initialData, id_generator, dispenseUpdates, flush,
                 faults, curId, idLog, now, dbVars, cacheVars, visitHistories,
                 flockHolder, resp>>

\* visitHistories.Set(0, append(visitHistory, row)), then rank_after is parsed
RankingVisitSet(p) ==
  /\ pc[p] = "rk_visit_set"
  /\ visitHistories' = CacheSet(visitHistories, 0,
        Append(loc[p].visitHistory,
               VisitEvent(VisitHistoryRow(loc[p].viewer, loc[p].tenant, loc[p].cid,
                                          loc[p].now))))
  /\ visits' = VisitsAtRecordSet
  /\ IF loc[p].ra.ok
     THEN /\ pc' = [pc EXCEPT ![p] = "rk_lock"]
          /\ UNCHANGED resp
     ELSE Return(p, [status |-> 500, op |-> "ranking"])
  /\ UNCHANGED <<tickers, evicting, initialData, id_generator, dispenseUpdates, flush,
                 faults, curId, idLog, now, dbVars, cacheVars, flockHolder, loc>>

\* fl, err := flockByTenantID(v.tenantID)
RankingLock(p) ==
  /\ pc[p] = "rk_lock"
  /\ FlockByTenantID(p, "ranking", "rk_read")
  /\ UNCHANGED <<taskVars, curId, idLog, now, dbVars, cacheVars, visitHistories, loc>>

\* the ranks of the rows pss in response order, before paging
RanksOf(pss) == SortRanks(ScoredRanks(pss))

PlayerIDs(ranks) == [i \in 1..Len(ranks) |-> ranks[i].PlayerID]

\* what the handler holds after the loop over pss, the sort and the paging:
\* got is the outcome of the calls of retrievePlayer
RankingOutcome(got, pss, rankAfter) ==
  [cache |-> got.cache, err |-> ~got.ok,
   pagedRanks |-> IF got.ok THEN PagedRanks(RanksOf(pss), rankAfter)
                  ELSE <<>>]

RankingComputed(cache, t, pss, rankAfter) ==
  RankingOutcome(RetrievePlayers(cache, t, PlayerIDs(ScoredRanks(pss))),
                 pss, rankAfter)

\* the handler goes on with the outcome out
RankingHolds(p, out) ==
  /\ playerCache' = out.cache
  /\ loc' = [loc EXCEPT ![p] = [err |-> out.err, pagedRanks |-> out.pagedRanks] @@ @]

\* the SELECT of the score rows (its error is returned), the loop over them,
\* the sort and the paging
RankingRead(p) ==
  /\ pc[p] = "rk_read"
  /\ \E ok \in DbOutcomes :
       IF ok
       THEN RankingHolds(p, RankingComputed(playerCache, loc[p].tenant,
                   OrderByRowNumDesc(SelectPlayerScore(loc[p].tenant, loc[p].cid)),
                   loc[p].ra.n))
       ELSE RankingHolds(p, [cache |-> playerCache, err |-> TRUE, pagedRanks |-> <<>>])
  /\ pc' = [pc EXCEPT ![p] = "rk_return"]
  /\ UNCHANGED <<taskVars, curId, idLog, now, dbVars, competitionCache, vhsCache,
                 scoredPlayerCache, billingReportCache, compFinishCache,
                 visitHistories, flockHolder, resp>>

\* the deferred fl.Close() and the response
RankingReturn(p) ==
  /\ pc[p] = "rk_return"
  /\ flockHolder' = FlockClosed(loc[p].tenant)
  /\ IF loc[p].err
     THEN Return(p, [status |-> 500, op |-> "ranking"])
     ELSE Return(p, [status |-> 200, op |-> "ranking",
                     Competition |-> CompetitionDetail(loc[p].comp),
                     Ranks |-> loc[p].pagedRanks])
  /\ UNCHANGED <<taskVars, curId, idLog, now, dbVars, cacheVars, visitHistories, loc>>


(* ---------------------- the ranking as a function ---------------------- *)

\* longest CSV body of the score tables the ranking is computed on
MaxRankRows == 3

\* sequences over S of length at most n
SeqUpTo(S, n) == UNION {[1..k -> S] : k \in 0..n}

CsvRow(pid, score) == [player_id |-> pid, score |-> score]

\* the rows competitionScoreHandler builds from a CSV body: the i-th data row
\* carries row number i
PlayerScoreRowsFromZero(t, cid, csv) ==
  {PlayerScoreRow(t, csv[i].player_id, cid, csv[i].score, i - 1) : i \in 1..Len(csv)}
PlayerScoreRows(t, cid, csv) ==
  {PlayerScoreRow(t, csv[i].player_id, cid, csv[i].score, i) : i \in 1..Len(csv)}

\* a CSV body of n rows, one per player 1..n, and one more row for player 1
BulkCsv(n) ==
  [i \in 1..(n + 1) |->
     IF i <= n THEN CsvRow(i, IF i % 2 = 0 THEN 80 ELSE 50) ELSE CsvRow(1, 80)]

BulkSizes == {PageSize + 1}

RankCsvs ==
  SeqUpTo({CsvRow(pl, sc) : pl \in Players, sc \in Scores}, MaxRankRows)
    \cup {BulkCsv(n) : n \in BulkSizes}

RankAfters ==
  {[ok |-> TRUE, n |-> n] : n \in {-1, 0, 1, 2, 3, PageSize, PageSize + 1}}
    \cup {[ok |-> FALSE, n |-> 0]}

\* the score table of competition "1a" is the result of one upload; another
\* competition of the tenant has a row of its own
InitRank ==
  /\ curId = -1
  /\ idLog = <<>>
  /\ now = 0
  /\ player = [InitPlayer EXCEPT ![1] = {PlayerRow(1, i, FALSE) : i \in 1..(PageSize + 1)}]
  /\ competition = InitCompetition
  /\ \E csv \in RankCsvs :
       player_score = [t \in Tenants |->
         IF t = 1 THEN PlayerScoreRows(1, "1a", csv)
                         \cup PlayerScoreRows(1, "b", <<CsvRow(3, 80), CsvRow(3, 50)>>)
         ELSE {}]
  /\ visit_history = {}
  /\ playerCache = EmptyCache
  /\ competitionCache = EmptyCache
  /\ vhsCache = EmptyCache
  /\ scoredPlayerCache = EmptyCache
  /\ billingReportCache = EmptyCache
  /\ compFinishCache = EmptyCache
  /\ visitHistories = EmptyCache
  /\ flockHolder = [f \in LockFiles |-> None]
  /\ pc = [p \in Procs |-> "idle"]
  /\ loc = [p \in Procs |-> NoLoc]
  /\ resp = [p \in Procs |-> None]
  /\ tickers = 0
  /\ evicting = <<>>
  /\ flush = NoFlush
  /\ visits = NoVisits
  /\ faults = {}
  /\ id_generator = 0
  /\ dispenseUpdates = 0
  /\ initialData = [player |-> player, competition |-> competition,
                    player_score |-> player_score, visit_history |-> visit_history]

NextRank ==
  \/ \E ra \in RankAfters : RankingStart(1, 1, 1, "1a", ra)
  \/ RankingCompSet(1)
  \/ RankingVisitGet(1)
  \/ RankingVisitSet(1)
  \/ RankingLock(1)
  \/ RankingRead(1)
  \/ RankingReturn(1)
  \/ Finish(1)

SpecRank == InitRank /\ [][NextRank]_vars


\* slot p holds the ranking it is about to return, and still holds the lock
\* under which it read the score rows
RankingReady(p) == pc[p] = "rk_return" /\ ~loc[p].err

\* the score rows of the competition slot p ranks
RankedRows(p) == SelectPlayerScore(loc[p].tenant, loc[p].cid)

\* the row number of the row of player pid with the largest row number
RetainedRowNum(rows, pid) ==
  CHOOSE n \in {r.row_num : r \in {q \in rows : q.player_id = pid}} :
    \A q \in rows : q.player_id = pid => q.row_num <= n

\* C8, for the ranks of one response over the score rows `rows`
LatestScoreOnly(rows, ranks) ==
  /\ \A i, j \in 1..Len(ranks) : i # j => ranks[i].PlayerID # ranks[j].PlayerID
  /\ \A i \in 1..Len(ranks) :
       \E r \in rows :
         /\ r.player_id = ranks[i].PlayerID
         /\ r.score = ranks[i].Score
         /\ \A q \in rows : q.player_id = r.player_id => q.row_num <= r.row_num

\* C8: in the ranking returned, each player appears at most once, with the
\* score of that player's row of the largest row number among the
\* competition's score rows.
C8_LatestRowPerPlayer ==
  \A p \in Procs : RankingReady(p) => LatestScoreOnly(RankedRows(p), loc[p].pagedRanks)

\* a player with two rows of different scores is in the ranking returned
C8_Witness ==
  \E p \in Procs :
    /\ RankingReady(p)
    /\ \E i \in 1..Len(loc[p].pagedRanks) :
         \E r, q \in RankedRows(p) :
           /\ r.player_id = loc[p].pagedRanks[i].PlayerID
           /\ q.player_id = r.player_id
           /\ q.row_num < r.row_num
           /\ q.score # r.score

\* C9, for the ranks of one response over the score rows `rows`
OrderedByScoreThenRetained(rows, ranks) ==
  \A i \in 1..(Len(ranks) - 1) :
    \/ ranks[i].Score > ranks[i + 1].Score
    \/ /\ ranks[i].Score = ranks[i + 1].Score
       /\ RetainedRowNum(rows, ranks[i].PlayerID)
            < RetainedRowNum(rows, ranks[i + 1].PlayerID)

\* C9: the ranking is ordered by score descending, and players of equal score
\* by ascending row number of their retained rows.
C9_ScoreDescThenRowNumAsc ==
  \A p \in Procs :
    RankingReady(p) => OrderedByScoreThenRetained(RankedRows(p), loc[p].pagedRanks)

\* {P1:50 @1, P2:80 @2, P1:80 @3}: the tie at 80 is won by P2, whose retained
\* row 2 is before P1's retained row 3 although P1 has the row of number 1
C9_Witness ==
  \E p \in Procs :
    /\ RankingReady(p)
    /\ Len(loc[p].pagedRanks) = 2
    /\ loc[p].pagedRanks[1].Score = loc[p].pagedRanks[2].Score
    /\ \E q \in RankedRows(p) :
         /\ q.player_id = loc[p].pagedRanks[2].PlayerID
         /\ q.row_num < RetainedRowNum(RankedRows(p), loc[p].pagedRanks[1].PlayerID)

\* the retained rows: of each player the row of the largest row number
RetainedRows(rows) ==
  {r \in rows : \A q \in rows : q.player_id = r.player_id => q.row_num <= r.row_num}

\* the 1-based position of the retained row r in the order of C9
PositionOf(retained, r) ==
  1 + Cardinality({q \in retained :
        \/ q.score > r.score
        \/ q.score = r.score /\ q.row_num < r.row_num})

\* C10, for the ranks of one response: retained are the retained rows and
\* k the number of positions skipped
IsPage(retained, ranks, k) ==
  /\ Len(ranks) = Min(PageSize, Max(0, Cardinality(retained) - k))
  /\ \A j \in 1..Len(ranks) :
       /\ ranks[j].Rank = k + j
       /\ \E r \in retained :
            /\ r.player_id = ranks[j].PlayerID
            /\ r.score = ranks[j].Score
            /\ PositionOf(retained, r) = k + j

\* C10: ranks are 1-based positions in the full sorted deduplicated set; for
\* rank_after = k the response holds exactly the entries of rank k+1, k+2, ...
\* in order, at most 100 of them, and fewer only when the set is exhausted.
C10_PageAfterRank ==
  \A p \in Procs :
    RankingReady(p) =>
      IsPage(RetainedRows(RankedRows(p)), loc[p].pagedRanks, Max(loc[p].ra.n, 0))

\* a full page that starts at rank 2 and leaves no entry out at its end
C10_Witness ==
  \E p \in Procs :
    /\ RankingReady(p)
    /\ loc[p].ra.n = 1
    /\ Len(loc[p].pagedRanks) = PageSize
    /\ loc[p].pagedRanks[1].Rank = 2


(* ---------------------- competitionScoreHandler ------------------------ *)

\* the CSV bodies organizers upload: player 9 is in no tenant; score cells
\* are decimal integers
UploadCsvs == {<<>>,
               <<CsvRow(1, 50)>>,
               <<CsvRow(2, 80), CsvRow(1, 80)>>,
               <<CsvRow(1, 50), CsvRow(9, 50)>>}

\* the value curId has after n calls of dispenseID
DispensedTimes(cur, n) == cur + n

\* after retrieveCompetition: the finished check and the check of the CSV
\* header; l holds the handler's local variables
ScoreChecked(p, l, comp) ==
  IF comp.finished_at.Valid \/ ~l.hdr
  THEN /\ Return(p, [status |-> 400, op |-> "score"])
       /\ loc' = [loc EXCEPT ![p] = NoLoc]
  ELSE /\ loc' = [loc EXCEPT ![p] = [comp |-> comp] @@ l]
       /\ pc' = [pc EXCEPT ![p] = "sc_lock"]
       /\ UNCHANGED resp

\* POST /api/organizer/competition/:competition_id/score with a CSV whose
\* header line is right (hdr) or not and whose data rows are csv
ScoreStart(p, t, cid, hdr, csv) ==
  /\ pc[p] = "idle"
  /\ LET l == [op |-> "score", tenant |-> t, cid |-> cid, hdr |-> hdr, csv |-> csv]
     IN IF CacheHas(competitionCache, cid)
        THEN ScoreChecked(p, l, competitionCache[cid])
        ELSE IF SelectCompetition(t, cid) = {}
        THEN /\ Return(p, [status |-> 404, op |-> "score"])
             /\ UNCHANGED loc
        ELSE /\ loc' = [loc EXCEPT ![p] =
                  [comp |-> CHOOSE r \in SelectCompetition(t, cid) : TRUE] @@ l]
             /\ pc' = [pc EXCEPT ![p] = "sc_comp_set"]
             /\ UNCHANGED resp
  /\ UNCHANGED <<taskVars, curId, idLog, now, dbVars, cacheVars, visitHistories,
                 flockHolder>>

\* retrieveCompetition after a miss: competitionCache.Set(id, c)
ScoreCompSet(p) ==
  /\ pc[p] = "sc_comp_set"
  /\ competitionCache' = CacheSet(competitionCache, loc[p].cid, loc[p].comp)
  /\ ScoreChecked(p, loc[p], loc[p].comp)
  /\ UNCHANGED <<taskVars, curId, idLog, now, dbVars, playerCache, vhsCache,
                 scoredPlayerCache, billingReportCache, compFinishCache,
                 visitHistories, flockHolder>>

\* fl, err := flockByTenantID(v.tenantID)
ScoreLock(p) ==
  /\ pc[p] = "sc_lock"
  /\ FlockByTenantID(p, "score", "sc_rows")
  /\ UNCHANGED <<taskVars, curId, idLog, now, dbVars, cacheVars, visitHistories, loc>>

\* data rows the loop rejects whatever the player is: the score cell is not
\* a decimal integer (score is the 0 strconv.ParseInt returns with its error),
\* or the record has one field instead of two
CsvRowNotInteger(pid) == [player_id |-> pid, score |-> 0, bad |-> "score"]
CsvRowOneColumn(pid) == [player_id |-> pid, score |-> 0, bad |-> "columns"]
RowBad(row) == IF "bad" \in DOMAIN row THEN row.bad ELSE "none"

\* the row gets as far as strconv.ParseInt: r.Read returns it without error
\* and retrievePlayer finds its player
RowParsed(cache, t, row) ==
  RowBad(row) # "columns" /\ RetrievePlayer(cache, t, row.player_id) # None

\* the positions of the data rows at which the loop returns an error: r.Read
\* fails on a record whose number of fields differs from the header's,
\* retrievePlayer finds no player, strconv.ParseInt fails
InvalidRows(cache, t, csv) ==
  {i \in 1..Len(csv) : ~RowParsed(cache, t, csv[i]) \/ RowBad(csv[i]) = "score"}

\* the response to a CSV whose first rejected data row is row
RowError(row) ==
  IF RowBad(row) = "columns"
  THEN [status |-> 500, op |-> "score", err |-> "error r.Read at rows"]
  ELSE [status |-> 400, op |-> "score"]

\* the loop's return of the error at a rejected row, with the deferred
\* fl.Close(): the DELETE and the INSERT are not reached
ScoreRowsRejectedIgnored(p, t, row) ==
  /\ pc' = [pc EXCEPT ![p] = "sc_delete"]
  /\ UNCHANGED <<flockHolder, resp>>
ScoreRowsRejected(p, t, row) ==
  /\ flockHolder' = FlockClosed(t)
  /\ Return(p, RowError(row))

\* the loop over the data rows: retrievePlayer and dispenseID for each row,
\* up to the first row that is rejected (failed: the positions of such
\* rows).  The ids are not kept in the model's rows: within a tenant the
\* ids of score rows are distinct, each call reading a value its own
\* increment has made larger than every value read before.
ScoreRowsRead(p, t, csv, failed) ==
  LET first == IF failed = {} THEN Len(csv) + 1
               ELSE CHOOSE i \in failed : \A j \in failed : i <= j
      n == first - 1
      unread == IF failed = {} THEN {}
                ELSE IF RowParsed(playerCache, t, csv[first]) THEN {first + 1}
                ELSE {first}
      got == RetrievedUpTo(playerCache, t, [i \in 1..Len(csv) |-> csv[i].player_id],
                           unread)
  IN /\ curId + n <= MaxId
     /\ curId' = DispensedTimes(curId, n)
     /\ playerCache' = got.cache
     /\ IF failed = {}
        THEN /\ pc' = [pc EXCEPT ![p] = "sc_delete"]
             /\ UNCHANGED <<flockHolder, resp>>
        ELSE ScoreRowsRejected(p, t, csv[first])

ScoreRows(p) ==
  /\ pc[p] = "sc_rows"
  /\ ScoreRowsRead(p, loc[p].tenant, loc[p].csv,
       InvalidRows(playerCache, loc[p].tenant, loc[p].csv))
  /\ UNCHANGED <<taskVars, idLog, now, dbVars, competitionCache, vhsCache,
                 scoredPlayerCache, billingReportCache, compFinishCache,
                 visitHistories, loc>>

\* DELETE FROM player_score WHERE tenant_id = ? AND competition_id = ?
\* (its error is returned, with the deferred fl.Close())
ScoreDelete(p) ==
  /\ pc[p] = "sc_delete"
  /\ \E ok \in DbOutcomes :
       IF ok
       THEN /\ player_score' = [player_score EXCEPT ![loc[p].tenant] =
                  @ \ SelectPlayerScore(loc[p].tenant, loc[p].cid)]
            /\ pc' = [pc EXCEPT ![p] = "sc_insert"]
            /\ UNCHANGED <<flockHolder, resp>>
       ELSE /\ Return(p, [status |-> 500, op |-> "score",
                           err |-> "error Delete player_score"])
            /\ flockHolder' = FlockClosed(loc[p].tenant)
            /\ UNCHANGED player_score
  /\ UNCHANGED <<taskVars, curId, idLog, now, player, competition, visit_history,
                 cacheVars, visitHistories, loc>>

\* the bulk INSERT (sqlx binds no row of an empty slice and returns an error),
\* the response and the deferred fl.Close()
ScoreInsert(p) ==
  /\ pc[p] = "sc_insert"
  /\ IF Len(loc[p].csv) = 0
     THEN /\ UNCHANGED player_score
          /\ Return(p, [status |-> 500, op |-> "score"])
     ELSE /\ player_score' = [player_score EXCEPT ![loc[p].tenant] =
                @ \cup PlayerScoreRows(loc[p].tenant, loc[p].cid, loc[p].csv)]
          /\ Return(p, [status |-> 200, op |-> "score", Rows |-> Len(loc[p].csv)])
  /\ flockHolder' = FlockClosed(loc[p].tenant)
  /\ UNCHANGED <<taskVars, curId, idLog, now, player, competition, visit_history,
                 cacheVars, visitHistories, loc>>

(* ---------------------- uploads and ranking reads ---------------------- *)

\* the competitions requests name: "zz" is the id of no competition
RequestCompIDs == {"1a", "zz"}

\* organizers of tenant 1 upload scores while players of tenant 1 read rankings
Next ==
  \/ \E p \in Procs, cid \in RequestCompIDs, hdr \in BOOLEAN, csv \in UploadCsvs :
       ScoreStart(p, 1, cid, hdr, csv)
  \/ \E p \in Procs : ScoreCompSet(p)
  \/ \E p \in Procs : ScoreLock(p)
  \/ \E p \in Procs : ScoreRows(p)
  \/ \E p \in Procs : ScoreDelete(p)
  \/ \E p \in Procs : ScoreInsert(p)
  \/ \E p \in Procs, viewer \in {1}, cid \in {"1a"}, ra \in {[ok |-> TRUE, n |-> 0]} :
       RankingStart(p, 1, viewer, cid, ra)
  \/ \E p \in Procs : RankingCompSet(p)
  \/ \E p \in Procs : RankingVisitGet(p)
  \/ \E p \in Procs : RankingVisitSet(p)
  \/ \E p \in Procs : RankingLock(p)
  \/ \E p \in Procs : RankingRead(p)
  \/ \E p \in Procs : RankingReturn(p)
  \/ \E p \in Procs : Finish(p)

Spec == InitBase /\ [][Next]_vars

\* slot q has deleted the score rows of (t, cid) and not yet inserted the new
\* ones
MidUpload(q, t, cid) ==
  pc[q] = "sc_insert" /\ loc[q].tenant = t /\ loc[q].cid = cid

\* slot p is about to read, or has read and still holds, the score rows of
\* (t, cid) for a ranking
ReadsRanking(p, t, cid) ==
  pc[p] \in {"rk_read", "rk_return"} /\ loc[p].tenant = t /\ loc[p].cid = cid

\* C1: no ranking read observes the score rows of its competition between the
\* DELETE and the INSERT of an upload to that competition.
C1_NoReadMidUpload ==
  \A p, q \in Procs, t \in Tenants, cid \in RequestCompIDs :
    ~(ReadsRanking(p, t, cid) /\ MidUpload(q, t, cid))

\* a ranking request waits for the lock while an upload that replaces rows by
\* other rows is between its DELETE and its INSERT
C1_Witness ==
  \E p, q \in Procs :
    /\ pc[p] = "rk_lock"
    /\ MidUpload(q, loc[p].tenant, loc[p].cid)
    /\ Len(loc[q].csv) > 0
    /\ flockHolder[LockFilePath(loc[p].tenant)] = Some(q)


(* ---------------------- billingReportByCompetition --------------------- *)

\* the key of billingReportCache: strconv.Itoa(int(tenantID)) + competitionID
BillingReportKey(t, cid) == Itoa(t) \o cid

\* SELECT player_id, MIN(created_at) AS min_created_at, competition_id
\*   FROM visit_history WHERE tenant_id = ? GROUP BY player_id, competition_id
VisitHistorySummaryRows(t) ==
  {[player_id |-> r.player_id, competition_id |-> r.competition_id,
    min_created_at |-> r.created_at] :
     r \in {x \in visit_history :
              /\ x.tenant_id = t
              /\ \A y \in visit_history :
                   (y.tenant_id = t /\ y.player_id = x.player_id
                      /\ y.competition_id = x.competition_id)
                     => x.created_at <= y.created_at}}

\* SELECT DISTINCT(player_id) AS pid, competition_id FROM player_score
\*   WHERE tenant_id = ?
ScoredPlayers(t) ==
  {[pid |-> r.player_id, competition_id |-> r.competition_id] :
     r \in {x \in player_score[t] : x.tenant_id = t}}

\* mutant: a visit at the finish timestamp is skipped too
VisitorIDsBeforeFinish(vhs, comp) ==
  {r.player_id : r \in {x \in vhs :
     /\ x.competition_id = comp.id
     /\ ~(comp.finished_at.Valid /\ comp.finished_at.Int64 <= x.min_created_at)}}

\* the players the first loop marks: a summary row of the competition that
\* is not later than the competition's finish
VisitorIDs(vhs, comp) ==
  {r.player_id : r \in {x \in vhs :
     /\ x.competition_id = comp.id
     /\ ~(comp.finished_at.Valid /\ comp.finished_at.Int64 < x.min_created_at)}}

\* the players the second loop marks
ScoredIDs(scoredPlayers, comp) ==
  {r.pid : r \in {x \in scoredPlayers : x.competition_id = comp.id}}

\* billingMap[k] = category for every k of keys
MapAssign(billingMap, keys, category) ==
  [k \in (DOMAIN billingMap) \cup keys |->
     IF k \in keys THEN category ELSE billingMap[k]]

\* mutant: the visitors are marked after the players
BillingMapVisitorsLast(visitors, scored) ==
  MapAssign(MapAssign(<<>>, scored, "player"), visitors, "visitor")

\* billingMap after the two loops
BillingMap(visitors, scored) ==
  MapAssign(MapAssign(<<>>, visitors, "visitor"), scored, "player")

\* the number of keys of billingMap in the category, counted only when the
\* competition is finished
CategoryCount(comp, billingMap, category) ==
  IF comp.finished_at.Valid
  THEN Cardinality({k \in DOMAIN billingMap : billingMap[k] = category})
  ELSE 0

BillingReport(comp, playerCount, visitorCount) ==
  [CompetitionID |-> comp.id,
   PlayerCount |-> playerCount,
   VisitorCount |-> visitorCount,
   BillingPlayerYen |-> 100 * playerCount,
   BillingVisitorYen |-> 10 * visitorCount,
   BillingYen |-> 100 * playerCount + 10 * visitorCount]

\* SELECT * FROM competition WHERE tenant_id=? ORDER BY created_at DESC:
\* the orders the rows may come in
OrderByCreatedAtDesc(rows) ==
  {f \in [1..Cardinality(rows) -> rows] :
     /\ \A i, j \in DOMAIN f : i # j => f[i] # f[j]
     /\ \A i, j \in DOMAIN f : i < j => f[i].created_at >= f[j].created_at}

\* competitionFinishHandler has set the finish timestamp of (t, cid) and no
\* call of it for (t, cid) is running
FinishReturned(t, cid) ==
  /\ \E r \in SelectCompetition(t, cid) : r.finished_at.Valid
  /\ \A q \in Procs :
       ~(loc[q].op = "finish" /\ pc[q] # "done"
           /\ loc[q].tenant = t /\ loc[q].cid = cid)

\* the variables of tenantsBillingHandler's loop over the tenants: the
\* parsed before, the rows ts, the position k in them, tenantBillings
TenantsLoopVars(l) == [before |-> l.before, ts |-> l.ts, k |-> l.k, tbs |-> l.tbs]

\* history of a call billingReportByCompetition(t, cid), taken at its start
CallStarted(t, cid) ==
  [cid |-> cid,
   finished |-> FinishReturned(t, cid),
   scored |-> SelectPlayerScore(t, cid) # {}]

\* billingHandler after a call has returned report: fresh tells a computed
\* report from a cached one, open that the competition has no finish
\* timestamp at the return
AfterReport(l, report, fresh) ==
  LET after ==
        [op |-> l.op, tenant |-> l.tenant, cs |-> l.cs, i |-> l.i + 1,
         tbrs |-> Append(l.tbrs, report),
         calls |-> Append(l.calls,
             [fresh |-> fresh,
              open |-> \A r \in SelectCompetition(l.tenant, l.cs[l.i]) :
                         ~r.finished_at.Valid]
               @@ l.call)]
  IN IF l.op = "tenants_billing" THEN TenantsLoopVars(l) @@ after ELSE after

\* tbrs = append(tbrs, *report), and the next competition or the response;
\* in tenantsBillingHandler tb.BillingYen += report.BillingYen, and the next
\* competition or the append of tb
BillingAppend(p, l) ==
  /\ loc' = [loc EXCEPT ![p] = l]
  /\ IF l.i <= Len(l.cs)
     THEN /\ pc' = [pc EXCEPT ![p] = "bl_report_get"]
          /\ UNCHANGED resp
     ELSE IF l.op = "tenants_billing"
     THEN /\ pc' = [pc EXCEPT ![p] = "tb_append"]
          /\ UNCHANGED resp
     ELSE Return(p, [status |-> 200, op |-> "billing", Reports |-> l.tbrs])

\* GET /api/organizer/billing: the SELECT of the tenant's competitions
BillingStart(p, t) ==
  /\ pc[p] = "idle"
  /\ \E cs \in OrderByCreatedAtDesc(competition[t]) :
       BillingAppend(p, [op |-> "billing", tenant |-> t,
                         cs |-> [i \in DOMAIN cs |-> cs[i].id], i |-> 1,
                         tbrs |-> <<>>, calls |-> <<>>])
  /\ UNCHANGED <<taskVars, curId, idLog, now, dbVars, cacheVars, visitHistories,
                 flockHolder>>

\* billingReportByCompetition: billingReportCache.Get(key)
BillingReportGet(p) ==
  /\ pc[p] = "bl_report_get"
  /\ LET t == loc[p].tenant
         cid == loc[p].cs[loc[p].i]
         l == [call |-> CallStarted(t, cid)] @@ loc[p]
     IN IF CacheHas(billingReportCache, BillingReportKey(t, cid))
        THEN BillingAppend(p, AfterReport(l,
               billingReportCache[BillingReportKey(t, cid)], FALSE))
        ELSE /\ loc' = [loc EXCEPT ![p] = l]
             /\ pc' = [pc EXCEPT ![p] = "bl_comp"]
             /\ UNCHANGED resp
  /\ UNCHANGED <<taskVars, curId, idLog, now, dbVars, cacheVars, visitHistories,
                 flockHolder>>

\* if err != nil { return nil, fmt.Errorf("error retrieveCompetition: %w", err) }
\* and billingHandler's return of the error
BillingCompFailed(p, t, cid) ==
  /\ Return(p, [status |-> 500, op |-> "billing", err |-> "error retrieveCompetition"])
  /\ UNCHANGED loc

\* retrieveCompetition: the cached row, else the row of the tenant DB
BillingComp(p) ==
  /\ pc[p] = "bl_comp"
  /\ LET t == loc[p].tenant
         cid == loc[p].cs[loc[p].i]
     IN IF CacheHas(competitionCache, cid)
        THEN /\ loc' = [loc EXCEPT ![p] = [comp |-> competitionCache[cid]] @@ @]
             /\ pc' = [pc EXCEPT ![p] = "bl_vhs"]
             /\ UNCHANGED resp
        ELSE IF SelectCompetition(t, cid) = {}
        THEN BillingCompFailed(p, t, cid)
        ELSE /\ loc' = [loc EXCEPT ![p] =
                  [comp |-> CHOOSE r \in SelectCompetition(t, cid) : TRUE] @@ @]
             /\ pc' = [pc EXCEPT ![p] = "bl_comp_set"]
             /\ UNCHANGED resp
  /\ UNCHANGED <<taskVars, curId, idLog, now, dbVars, cacheVars, visitHistories,
                 flockHolder>>

\* retrieveCompetition after a miss: competitionCache.Set(id, c)
BillingCompSet(p) ==
  /\ pc[p] = "bl_comp_set"
  /\ competitionCache' = CacheSet(competitionCache, loc[p].comp.id, loc[p].comp)
  /\ pc' = [pc EXCEPT ![p] = "bl_vhs"]
  /\ UNCHANGED <<taskVars, curId, idLog, now, dbVars, playerCache, vhsCache,
                 scoredPlayerCache, billingReportCache, compFinishCache,
                 visitHistories, flockHolder, loc, resp>>

\* vhsCache.Get(tenantID), on a miss the SELECT of the summary rows
BillingVhs(p) ==
  /\ pc[p] = "bl_vhs"
  /\ loc' = [loc EXCEPT ![p] =
        [vhs |-> IF CacheHas(vhsCache, loc[p].tenant) THEN vhsCache[loc[p].tenant]
                 ELSE VisitHistorySummaryRows(loc[p].tenant)] @@ @]
  /\ pc' = [pc EXCEPT ![p] = "bl_vhs_set"]
  /\ UNCHANGED <<taskVars, curId, idLog, now, dbVars, cacheVars, visitHistories,
                 flockHolder, resp>>

\* the loop over vhs, then vhsCache.Set(tenantID, vhs)
BillingVhsSet(p) ==
  /\ pc[p] = "bl_vhs_set"
  /\ vhsCache' = CacheSet(vhsCache, loc[p].tenant, loc[p].vhs)
  /\ pc' = [pc EXCEPT ![p] = "bl_lock"]
  /\ UNCHANGED <<taskVars, curId, idLog, now, dbVars, playerCache, competitionCache,
                 scoredPlayerCache, billingReportCache, compFinishCache,
                 visitHistories, flockHolder, loc, resp>>

\* fl, err := flockByTenantID(tenantID)
BillingLock(p) ==
  /\ pc[p] = "bl_lock"
  /\ FlockByTenantID(p, "billing", "bl_read")
  /\ UNCHANGED <<taskVars, curId, idLog, now, dbVars, cacheVars, visitHistories, loc>>

\* the report of the competition comp from billingMap
ReportOf(comp, billingMap) ==
  BillingReport(comp, CategoryCount(comp, billingMap, "player"),
                      CategoryCount(comp, billingMap, "visitor"))

\* scoredPlayerCache.Get(tenantID), on a miss the SELECT of the scored
\* players (its error is returned, with the deferred fl.Close()); the loop
\* over them, the counts and the report
BillingRead(p) ==
  /\ pc[p] = "bl_read"
  /\ LET t == loc[p].tenant
         scoredPlayers == IF CacheHas(scoredPlayerCache, t) THEN scoredPlayerCache[t]
                          ELSE ScoredPlayers(t)
         billingMap == BillingMap(VisitorIDs(loc[p].vhs, loc[p].comp),
                                  ScoredIDs(scoredPlayers, loc[p].comp))
     IN \E ok \in DbOutcomes :
          IF ok \/ CacheHas(scoredPlayerCache, t)
          THEN /\ loc' = [loc EXCEPT ![p] =
                    [billingMap |-> billingMap,
                     report |-> ReportOf(loc[p].comp, billingMap)] @@ @]
               /\ pc' = [pc EXCEPT ![p] = "bl_set"]
               /\ UNCHANGED <<flockHolder, resp>>
          ELSE /\ Return(p, [status |-> 500, op |-> "billing",
                              err |-> "error Select count player_score"])
               /\ flockHolder' = FlockClosed(t)
               /\ UNCHANGED loc
  /\ UNCHANGED <<taskVars, curId, idLog, now, dbVars, cacheVars, visitHistories>>

\* billingReportCache.Set(key, billingReport), the return and the deferred
\* fl.Close()
BillingSet(p) ==
  /\ pc[p] = "bl_set"
  /\ billingReportCache' = CacheSet(billingReportCache,
        BillingReportKey(loc[p].tenant, loc[p].cs[loc[p].i]), loc[p].report)
  /\ flockHolder' = FlockClosed(loc[p].tenant)
  /\ BillingAppend(p, AfterReport(loc[p], loc[p].report, TRUE))
  /\ UNCHANGED <<taskVars, curId, idLog, now, dbVars, playerCache, competitionCache,
                 vhsCache, scoredPlayerCache, compFinishCache, visitHistories>>


(* ---------------------- competitionFinishHandler ----------------------- *)

\* compFinishCache.Get(0): the zero value (a nil slice) when nothing is stored
FinishKeys == IF CacheHas(compFinishCache, 0) THEN compFinishCache[0] ELSE <<>>

\* POST /api/organizer/competition/:competition_id/finish, up to the lookup
\* of retrieveCompetition
FinishStart(p, t, cid) ==
  /\ pc[p] = "idle"
  /\ LET l == [op |-> "finish", tenant |-> t, cid |-> cid]
     IN IF CacheHas(competitionCache, cid)
        THEN /\ loc' = [loc EXCEPT ![p] = l]
             /\ pc' = [pc EXCEPT ![p] = "fin_update"]
             /\ UNCHANGED resp
        ELSE IF SelectCompetition(t, cid) = {}
        THEN /\ Return(p, [status |-> 404, op |-> "finish"])
             /\ UNCHANGED loc
        ELSE /\ loc' = [loc EXCEPT ![p] =
                  [comp |-> CHOOSE r \in SelectCompetition(t, cid) : TRUE] @@ l]
             /\ pc' = [pc EXCEPT ![p] = "fin_comp_set"]
             /\ UNCHANGED resp
  /\ UNCHANGED <<taskVars, curId, idLog, now, dbVars, cacheVars, visitHistories,
                 flockHolder>>

\* retrieveCompetition after a miss: competitionCache.Set(id, c)
FinishCompSet(p) ==
  /\ pc[p] = "fin_comp_set"
  /\ competitionCache' = CacheSet(competitionCache, loc[p].cid, loc[p].comp)
  /\ pc' = [pc EXCEPT ![p] = "fin_update"]
  /\ UNCHANGED <<taskVars, curId, idLog, now, dbVars, playerCache, vhsCache,
                 scoredPlayerCache, billingReportCache, compFinishCache,
                 visitHistories, flockHolder, loc, resp>>

\* UPDATE competition SET finished_at = ?, updated_at = ? WHERE id = ?
FinishUpdate(p) ==
  /\ pc[p] = "fin_update"
  /\ competition' = [competition EXCEPT ![loc[p].tenant] =
        {IF r.id = loc[p].cid THEN [r EXCEPT !.finished_at = ValidInt64(now)] ELSE r :
           r \in @}]
  /\ pc' = [pc EXCEPT ![p] = "fin_get"]
  /\ UNCHANGED <<taskVars, curId, idLog, now, player, player_score, visit_history,
                 cacheVars, visitHistories, flockHolder, loc, resp>>

\* finish, ok := compFinishCache.Get(0)
FinishGet(p) ==
  /\ pc[p] = "fin_get"
  /\ Len(FinishKeys) < MaxFinish
  /\ loc' = [loc EXCEPT ![p] =
        [finish |-> FinishKeys] @@ @]
  /\ pc' = [pc EXCEPT ![p] = "fin_set"]
  /\ UNCHANGED <<taskVars, curId, idLog, now, dbVars, cacheVars, visitHistories,
                 flockHolder, resp>>

\* compFinishCache.Set(0, append(finish, key))
FinishSet(p) ==
  /\ pc[p] = "fin_set"
  /\ compFinishCache' = CacheSet(compFinishCache, 0,
        Append(loc[p].finish, BillingReportKey(loc[p].tenant, loc[p].cid)))
  /\ pc' = [pc EXCEPT ![p] = "fin_delete"]
  /\ UNCHANGED <<taskVars, curId, idLog, now, dbVars, playerCache, competitionCache,
                 vhsCache, scoredPlayerCache, billingReportCache, visitHistories,
                 flockHolder, loc, resp>>

\* competitionCache.Delete(id) and the response
FinishDelete(p) ==
  /\ pc[p] = "fin_delete"
  /\ competitionCache' = CacheDelete(competitionCache, loc[p].cid)
  /\ Return(p, [status |-> 200, op |-> "finish"])
  /\ UNCHANGED <<taskVars, curId, idLog, now, dbVars, playerCache, vhsCache,
                 scoredPlayerCache, billingReportCache, compFinishCache,
                 visitHistories, flockHolder, loc>>

(* ---------------------- updateCompetitionFinish ------------------------ *)

\* a tick of the ticker initializeHandler has started:
\* finish, _ := compFinishCache.GetAndDelete(0)
UpdateCompetitionFinish ==
  /\ tickers > 0
  /\ evicting = <<>>
  /\ CacheHas(compFinishCache, 0)
  /\ evicting' = compFinishCache[0]
  /\ compFinishCache' = CacheDelete(compFinishCache, 0)
  /\ UNCHANGED <<tickers, initialData, id_generator, dispenseUpdates, flush, visits,
                 faults, curId, idLog, now, dbVars, playerCache, competitionCache,
                 vhsCache, scoredPlayerCache, billingReportCache, visitHistories,
                 flockHolder, pc, loc, resp>>

\* billingReportCache.Delete(finish[j])
UpdateCompetitionFinishDelete ==
  /\ evicting # <<>>
  /\ billingReportCache' = CacheDelete(billingReportCache, Head(evicting))
  /\ evicting' = Tail(evicting)
  /\ UNCHANGED <<tickers, initialData, id_generator, dispenseUpdates, flush, visits,
                 faults, curId, idLog, now, dbVars, playerCache, competitionCache,
                 vhsCache, scoredPlayerCache, compFinishCache, visitHistories,
                 flockHolder, pc, loc, resp>>

(* ---------------------- initializeHandler ------------------------------ *)

\* the initialize script puts the initial data back
InitializeScript ==
  /\ player' = initialData.player
  /\ competition' = initialData.competition
  /\ player_score' = initialData.player_score
  /\ visit_history' = initialData.visit_history

\* POST /initialize: the script, the Reset of the caches, the empty visit
\* buffer and the start of dispenseUpdate and of the two tickers
InitializeHandler(p) ==
  /\ pc[p] = "idle"
  /\ tickers < MaxInits
  /\ InitializeScript
  /\ playerCache' = EmptyCache
  /\ competitionCache' = EmptyCache
  /\ compFinishCache' = EmptyCache
  /\ billingReportCache' = EmptyCache
  /\ visitHistories' = CacheSet(visitHistories, 0, <<>>)
  /\ tickers' = tickers + 1
  /\ dispenseUpdates' = dispenseUpdates + 1
  /\ visits' = VisitsAtReset
  /\ Return(p, [status |-> 200, op |-> "initialize"])
  /\ UNCHANGED <<evicting, initialData, id_generator, flush, faults, curId, idLog, now, vhsCache,
                 scoredPlayerCache, flockHolder, loc>>

(* ---------------------- billing of finished competitions --------------- *)

\* the score rows of tenant 1 in the initial data
BillingScores ==
  PlayerScoreRows(1, "1a", <<CsvRow(1, 50), CsvRow(2, 80), CsvRow(1, 80)>>)

\* the visits of the initial data
BillingVisits ==
  {VisitHistoryRow(1, 1, "1a", 0), VisitHistoryRow(1, 1, "1a", 1),
   VisitHistoryRow(3, 1, "1a", 1), VisitHistoryRow(1000, 11, "a", 0)}

\* competition "1a" of tenant 1 in the initial data: open, or finished at
\* time 0
BillingFinishedAts == {NullInt64, ValidInt64(0)}

\* the process has started on the initial data
InitBilling ==
  /\ curId = -1
  /\ idLog = <<>>
  /\ now = 1
  /\ player = InitPlayer
  /\ \E fin \in BillingFinishedAts :
       competition = [t \in Tenants |->
         IF t = 1 THEN {CompetitionRow(1, "1a", fin, 0)}
         ELSE {CompetitionRow(t, "a", NullInt64, 0)}]
  /\ player_score = [t \in Tenants |-> IF t = 1 THEN BillingScores ELSE {}]
  /\ visit_history = BillingVisits
  /\ playerCache = EmptyCache
  /\ competitionCache = EmptyCache
  /\ vhsCache = EmptyCache
  /\ scoredPlayerCache = EmptyCache
  /\ billingReportCache = EmptyCache
  /\ compFinishCache = EmptyCache
  /\ visitHistories = EmptyCache
  /\ flockHolder = [f \in LockFiles |-> None]
  /\ pc = [p \in Procs |-> "idle"]
  /\ loc = [p \in Procs |-> NoLoc]
  /\ resp = [p \in Procs |-> None]
  /\ tickers = 0
  /\ evicting = <<>>
  /\ flush = NoFlush
  /\ visits = NoVisits
  /\ faults = {}
  /\ id_generator = 0
  /\ dispenseUpdates = 0
  /\ initialData = [player |-> player, competition |-> competition,
                    player_score |-> player_score, visit_history |-> visit_history]

\* no request is in flight
Quiescent == \A p \in Procs : pc[p] = "idle"

\* organizers read billing and finish competitions; the benchmarker
\* initializes while no request is in flight
NextBilling ==
  \/ \E p \in Procs, t \in Tenants : BillingStart(p, t)
  \/ \E p \in Procs : BillingReportGet(p)
  \/ \E p \in Procs : BillingComp(p)
  \/ \E p \in Procs : BillingCompSet(p)
  \/ \E p \in Procs : BillingVhs(p)
  \/ \E p \in Procs : BillingVhsSet(p)
  \/ \E p \in Procs : BillingLock(p)
  \/ \E p \in Procs : BillingRead(p)
  \/ \E p \in Procs : BillingSet(p)
  \/ \E p \in Procs, cid \in {"1a"} : FinishStart(p, 1, cid)
  \/ \E p \in Procs : FinishCompSet(p)
  \/ \E p \in Procs : FinishUpdate(p)
  \/ \E p \in Procs : FinishGet(p)
  \/ \E p \in Procs : FinishSet(p)
  \/ \E p \in Procs : FinishDelete(p)
  \/ UpdateCompetitionFinish
  \/ UpdateCompetitionFinishDelete
  \/ \E p \in Procs : Quiescent /\ InitializeHandler(p)
  \/ \E p \in Procs : Finish(p)

SpecBilling == InitBilling /\ [][NextBilling]_vars


\* slot p has computed a report and still holds the lock under which it read
\* the scored players
BillingComputed(p) == pc[p] = "bl_set"

\* the competition slot p computes the report of
BilledCompID(p) == loc[p].cs[loc[p].i]

\* the players with a score row in the competition
HasScore(t, cid) == {r.player_id : r \in SelectPlayerScore(t, cid)}

\* the players with a row for the competition in the summary rows vhs
HasVisit(vhs, cid) == {r.player_id : r \in {x \in vhs : x.competition_id = cid}}

\* C3, for the computation of slot p
ScorersArePlayers(p, scorers, visited) ==
  /\ \A x \in scorers \cap visited :
       x \in DOMAIN loc[p].billingMap /\ loc[p].billingMap[x] = "player"
  /\ loc[p].report.PlayerCount <= Cardinality(scorers)
  /\ loc[p].report.VisitorCount <= Cardinality(visited \ scorers)

\* C3: a player with a score row and a visit summary row for the competition
\* is classified "player", never "visitor", and is counted in one category only.
C3_ScorerIsPlayer ==
  \A p \in Procs :
    BillingComputed(p) =>
      ScorersArePlayers(p, HasScore(loc[p].tenant, BilledCompID(p)),
                        HasVisit(loc[p].vhs, BilledCompID(p)))

\* the report of a finished competition counts a player who has a score row
\* and a visit
C3_Witness ==
  \E p \in Procs :
    /\ BillingComputed(p)
    /\ loc[p].comp.finished_at.Valid
    /\ HasScore(loc[p].tenant, BilledCompID(p)) \cap HasVisit(loc[p].vhs, BilledCompID(p)) # {}
    /\ loc[p].report.PlayerCount = 2
    /\ loc[p].report.VisitorCount = 1

\* the reports the calls of billingReportByCompetition of slot p have returned
ReturnedReports(p) ==
  IF loc[p].op = "billing" THEN 1..Len(loc[p].tbrs) ELSE {}

\* C4: every report billingReportByCompetition returns for a competition
\* without finish timestamp has all three amounts 0.
C4_UnfinishedIsFree ==
  \A p \in Procs : \A j \in ReturnedReports(p) :
    loc[p].calls[j].open =>
      /\ loc[p].tbrs[j].BillingPlayerYen = 0
      /\ loc[p].tbrs[j].BillingVisitorYen = 0
      /\ loc[p].tbrs[j].BillingYen = 0

\* the players billingMap holds in the category
InCategory(billingMap, category) ==
  {k \in DOMAIN billingMap : billingMap[k] = category}

\* C5: a report computed by a call that started after the competition was
\* finished has PlayerCount = the number of players with a score row,
\* VisitorCount = the number of players classified visitor and not player, and
\* the amounts 100 * PlayerCount, 10 * VisitorCount and their sum.
C5_FinishedAmounts ==
  \A p \in Procs :
    (BillingComputed(p) /\ loc[p].call.finished) =>
      LET r == loc[p].report
      IN /\ r.PlayerCount = Cardinality(HasScore(loc[p].tenant, BilledCompID(p)))
         /\ r.VisitorCount = Cardinality(InCategory(loc[p].billingMap, "visitor"))
         /\ r.BillingPlayerYen = 100 * r.PlayerCount
         /\ r.BillingVisitorYen = 10 * r.VisitorCount
         /\ r.BillingYen = r.BillingPlayerYen + r.BillingVisitorYen

\* C6: a call of billingReportByCompetition that starts after
\* competitionFinishHandler has returned for the competition does not get a
\* cached report of the competition without amounts when the competition has
\* scored players.
C6_StaleReportEvicted ==
  \A p \in Procs : \A j \in ReturnedReports(p) :
    (/\ loc[p].calls[j].finished
     /\ loc[p].calls[j].scored
     /\ ~loc[p].calls[j].fresh
     /\ loc[p].tbrs[j].CompetitionID = loc[p].calls[j].cid) =>
      loc[p].tbrs[j].BillingYen > 0

\* a call of initializeHandler returns in this step
InitializeReturns ==
  \E p \in Procs :
    /\ pc[p] = "idle"
    /\ pc'[p] = "done"
    /\ Val(resp'[p]).op = "initialize"

\* no key of the cache before the step is a key of it after the step
NoKeySurvives(before, after) == (DOMAIN before) \cap (DOMAIN after) = {}

\* C7: when initializeHandler returns, no key cached before it is found in
\* the player, competition, visit summary, scored-player or billing report
\* cache.
C7_ResetClearsEveryCache ==
  [][InitializeReturns =>
       /\ NoKeySurvives(playerCache, playerCache')
       /\ NoKeySurvives(competitionCache, competitionCache')
       /\ NoKeySurvives(vhsCache, vhsCache')
       /\ NoKeySurvives(scoredPlayerCache, scoredPlayerCache')
       /\ NoKeySurvives(billingReportCache, billingReportCache')]_vars


(* ---------------------- delayedInsertVisitHistory ---------------------- *)

\* the rows the INSERT INTO visit_history writes for the batch
Persisted(batch) ==
  {VisitHistoryRow(batch[i].player_id, batch[i].tenant_id, batch[i].competition_id,
                   batch[i].created_at) : i \in 1..Len(batch)}

\* mutant: the flush stores the slice it has read
FlushedBufferKept == flush.visitHistory

\* visitHistory = make([]VisitHistoryRow, 0, 100)
FlushedBuffer == <<>>

\* the ticker fires: visitHistory, _ := visitHistories.Get(0)
DelayedInsertVisitHistoryGet ==
  /\ tickers > 0
  /\ flush.pc = "idle"
  /\ flush' = [pc |-> "insert", visitHistory |-> VisitBuffer, err |-> FALSE]
  /\ visits' = VisitsAtFlushGet
  /\ UNCHANGED <<tickers, evicting, initialData, id_generator, dispenseUpdates, faults,
                 curId, idLog, now, dbVars, cacheVars, visitHistories, flockHolder, pc,
                 loc, resp>>

\* adminDB.NamedExec(INSERT ..., visitHistory): one call with the whole slice;
\* its error (an empty slice is one, a failing statement another) is dropped
DelayedInsertVisitHistoryInsert ==
  /\ flush.pc = "insert"
  /\ \E ok \in DbOutcomes :
       IF ok
       THEN /\ visit_history' = visit_history \cup Persisted(flush.visitHistory)
            /\ visits' = VisitsAtFlushInsert(flush.visitHistory)
            /\ flush' = [flush EXCEPT !.pc = "set"]
       ELSE /\ UNCHANGED <<visit_history, visits>>
            /\ flush' = [flush EXCEPT !.pc = "set", !.err = TRUE]
  /\ UNCHANGED <<tickers, evicting, initialData, id_generator, dispenseUpdates, faults,
                 curId, idLog, now, player, competition, player_score, cacheVars,
                 visitHistories, flockHolder, pc, loc, resp>>

\* visitHistories.Set(0, visitHistory)
DelayedInsertVisitHistorySet ==
  /\ flush.pc = "set"
  /\ visitHistories' = CacheSet(visitHistories, 0, FlushedBuffer)
  /\ visits' = VisitsAtFlushSet
  /\ flush' = [NoFlush EXCEPT !.err = flush.err]
  /\ UNCHANGED <<tickers, evicting, initialData, id_generator, dispenseUpdates, faults,
                 curId, idLog, now, dbVars, cacheVars, flockHolder, pc, loc, resp>>

\* rank_after of the ranking requests that record the visits
VisitRankAfters == {[ok |-> TRUE, n |-> 0], [ok |-> FALSE, n |-> 0]}

\* slot 1 serves ranking requests one after the other, slot 2 serves
\* POST /initialize, the ticker runs delayedInsertVisitHistory
NextVisit ==
  \/ \E viewer \in {1, 2}, cid \in RequestCompIDs, ra \in VisitRankAfters :
       RankingStart(1, 1, viewer, cid, ra)
  \/ RankingCompSet(1)
  \/ RankingVisitGet(1)
  \/ RankingVisitSet(1)
  \/ RankingLock(1)
  \/ RankingRead(1)
  \/ RankingReturn(1)
  \/ InitializeHandler(2)
  \/ DelayedInsertVisitHistoryGet
  \/ DelayedInsertVisitHistoryInsert
  \/ DelayedInsertVisitHistorySet
  \/ \E p \in Procs : Finish(p)

SpecVisit == InitBase /\ [][NextVisit]_vars


\* the numbers of the events the slice buf holds
EventIds(buf) == {buf[i].ev : i \in 1..Len(buf)}

\* delayedInsertVisitHistory returns in this step
FlushCompletes == flush.pc = "set" /\ flush'.pc = "idle"

\* C11: when the events recorded since the buffer was last emptied were
\* recorded one after the other, with no flush or reset overlapping them, the
\* flush that runs next hands exactly these events to its one INSERT call and
\* leaves the buffer empty.
C11_FlushPassesAll ==
  [][(FlushCompletes /\ visits.clean) =>
       /\ EventIds(flush.visitHistory) = visits.pending
       /\ Len(flush.visitHistory) = Cardinality(visits.pending)
       /\ visitHistories'[0] = <<>>]_vars

\* a flush has handed two events recorded one after the other to the INSERT
\* and has emptied the buffer
C11_Witness ==
  /\ flush.pc = "idle"
  /\ visits.clean
  /\ visits.pending = {}
  /\ VisitBuffer = <<>>
  /\ Len(visits.batches) = 1
  /\ Len(visits.batches[1].ids) = 2

\* how often the event e was handed to the INSERT
TimesPersisted(e) ==
  Cardinality({x \in {<<j, i>> : j \in 1..Len(visits.batches), i \in 1..MaxBuf + 2} :
                 /\ x[2] <= Len(visits.batches[x[1]].ids)
                 /\ visits.batches[x[1]].ids[x[2]] = e})

\* how often the buffer holds the event e
TimesBuffered(e) == Cardinality({i \in 1..Len(VisitBuffer) : VisitBuffer[i].ev = e})

\* the number of events recorded before the last reset
LastReset ==
  IF visits.resets = <<>> THEN 0 ELSE visits.resets[Len(visits.resets)]

\* C12: when no flush is running, every event recorded since the last reset
\* is either in one batch a flush has persisted or in the buffer, and not in
\* both.
C12_RecordNeitherLostNorTwice ==
  ~FlushInFlight =>
    \A e \in (LastReset + 1)..visits.events :
      TimesPersisted(e) + TimesBuffered(e) = 1

\* C18: a batch handed to the INSERT after a call of initializeHandler has
\* completed holds no event recorded before that call completed.
C18_ResetDropsBuffered ==
  \A j \in 1..Len(visits.batches) :
    LET b == visits.batches[j]
    IN b.inits >= 1 =>
         \A i \in 1..Len(b.ids) : b.ids[i] > visits.resets[b.inits]


(* ---------------------- the tenant locks ------------------------------- *)

\* slot q computes a billing report of tenant t under the tenant's lock
BillingHoldsLock(q, t) == pc[q] \in {"bl_read", "bl_set"} /\ loc[q].tenant = t

\* C13: a billing computation that asks for the lock of its tenant gets it
\* whenever no other request holds the lock of that tenant, whatever locks of
\* other tenants are held.
C13_TenantLocksIndependent ==
  \A p \in Procs :
    (/\ pc[p] = "bl_lock"
     /\ \A q \in Procs \ {p} : ~BillingHoldsLock(q, loc[p].tenant)) =>
      ENABLED BillingLock(p)

\* two requests hold the locks of two tenants at the same time
C13_Witness ==
  \E p, q \in Procs :
    /\ BillingHoldsLock(p, 1)
    /\ BillingHoldsLock(q, 11)
    /\ flockHolder[LockFilePath(1)] = Some(p)
    /\ flockHolder[LockFilePath(11)] = Some(q)


(* ---------------------- playerHandler ---------------------------------- *)

\* the byte order of the competition ids
CompetitionIDOrder == <<"1a", "a", "b", "zz">>
CompetitionIDRank(id) == CHOOSE i \in DOMAIN CompetitionIDOrder : CompetitionIDOrder[i] = id

\* ORDER BY competition.created_at ASC, player_score.competition_id ASC
CompetitionBefore(a, b) ==
  \/ a.created_at < b.created_at
  \/ a.created_at = b.created_at /\ CompetitionIDRank(a.id) < CompetitionIDRank(b.id)

\* the rows of player_score JOIN competition of the player pid, and the loop
\* over them: for each competition the row with the largest row_num
PlayerScoreDetails(t, pid) ==
  LET pss == {r \in player_score[t] : r.tenant_id = t /\ r.player_id = pid}
      cs == {c \in competition[t] : \E r \in pss : r.competition_id = c.id}
      last(c) == CHOOSE r \in pss :
                   /\ r.competition_id = c.id
                   /\ \A q \in pss : q.competition_id = c.id => q.row_num <= r.row_num
      nth(i) == CHOOSE c \in cs :
                   Cardinality({b \in cs : CompetitionBefore(b, c)}) = i - 1
  IN AsSlice([i \in 1..Cardinality(cs) |->
        [CompetitionTitle |-> nth(i).id, Score |-> last(nth(i)).score]])

\* GET /api/player/player/:player_id: authorizePlayer, then retrievePlayer of
\* the player asked for
PlayerStart(p, t, viewer, playerID) ==
  /\ pc[p] = "idle"
  /\ LET v == RetrievePlayer(playerCache, t, viewer)
     IN IF v = None
        THEN /\ Return(p, [status |-> 401, op |-> "player"])
             /\ UNCHANGED <<playerCache, loc>>
        ELSE IF Val(v).is_disqualified
        THEN /\ playerCache' = CacheSet(playerCache, viewer, Val(v))
             /\ Return(p, [status |-> 403, op |-> "player"])
             /\ UNCHANGED loc
        ELSE LET cache == CacheSet(playerCache, viewer, Val(v))
                 pl == RetrievePlayer(cache, t, playerID)
             IN IF pl = None
                THEN /\ playerCache' = cache
                     /\ Return(p, [status |-> 404, op |-> "player"])
                     /\ UNCHANGED loc
                ELSE /\ playerCache' = CacheSet(cache, playerID, Val(pl))
                     /\ loc' = [loc EXCEPT ![p] =
                          [op |-> "player", tenant |-> t, viewer |-> viewer,
                           p |-> Val(pl)]]
                     /\ pc' = [pc EXCEPT ![p] = "pl_lock"]
                     /\ UNCHANGED resp
  /\ UNCHANGED <<taskVars, curId, idLog, now, dbVars, competitionCache, vhsCache,
                 scoredPlayerCache, billingReportCache, compFinishCache,
                 visitHistories, flockHolder>>

\* fl, err := flockByTenantID(v.tenantID)
PlayerLock(p) ==
  /\ pc[p] = "pl_lock"
  /\ FlockByTenantID(p, "player", "pl_read")
  /\ UNCHANGED <<taskVars, curId, idLog, now, dbVars, cacheVars, visitHistories, loc>>

\* the SELECT of the score rows of the player (its error is returned), the
\* loop over them, the response and the deferred fl.Close()
PlayerRead(p) ==
  /\ pc[p] = "pl_read"
  /\ \E ok \in DbOutcomes :
       IF ok
       THEN Return(p, [status |-> 200, op |-> "player",
                       Player |-> loc[p].p,
                       Scores |-> PlayerScoreDetails(loc[p].tenant, loc[p].p.id)])
       ELSE Return(p, [status |-> 500, op |-> "player",
                       err |-> "error Select player_score"])
  /\ flockHolder' = FlockClosed(loc[p].tenant)
  /\ UNCHANGED <<taskVars, curId, idLog, now, dbVars, cacheVars, visitHistories, loc>>

(* ---------------------- the lock and failing calls --------------------- *)

\* the calls that fail in a run: fl.Lock() ("flock"), statements on the
\* tenant DB ("db")
Faults == {"flock", "db"}

\* the process has started on the initial data; some calls can fail
InitLock ==
  /\ curId = -1
  /\ idLog = <<>>
  /\ now = 1
  /\ player = InitPlayer
  /\ competition = InitCompetition
  /\ player_score = [t \in Tenants |-> IF t = 1 THEN BillingScores ELSE {}]
  /\ visit_history = BillingVisits
  /\ playerCache = EmptyCache
  /\ competitionCache = EmptyCache
  /\ vhsCache = EmptyCache
  /\ scoredPlayerCache = EmptyCache
  /\ billingReportCache = EmptyCache
  /\ compFinishCache = EmptyCache
  /\ visitHistories = EmptyCache
  /\ flockHolder = [f \in LockFiles |-> None]
  /\ pc = [p \in Procs |-> "idle"]
  /\ loc = [p \in Procs |-> NoLoc]
  /\ resp = [p \in Procs |-> None]
  /\ tickers = 0
  /\ evicting = <<>>
  /\ flush = NoFlush
  /\ visits = NoVisits
  /\ faults \in SUBSET Faults
  /\ id_generator = 0
  /\ dispenseUpdates = 0
  /\ initialData = [player |-> player, competition |-> competition,
                    player_score |-> player_score, visit_history |-> visit_history]

\* the CSV bodies uploaded while calls fail
LockCsvs == {<<>>, <<CsvRow(1, 50)>>, <<CsvRow(1, 50), CsvRow(9, 50)>>}

\* slot 1 serves the organizer of tenant 1 (score uploads, billing), slot 2
\* the players of tenant 1 (ranking, player detail)
NextLock ==
  \/ \E csv \in LockCsvs : ScoreStart(1, 1, "1a", TRUE, csv)
  \/ ScoreCompSet(1)
  \/ ScoreLock(1)
  \/ ScoreRows(1)
  \/ ScoreDelete(1)
  \/ ScoreInsert(1)
  \/ BillingStart(1, 1)
  \/ BillingReportGet(1)
  \/ BillingComp(1)
  \/ BillingCompSet(1)
  \/ BillingVhs(1)
  \/ BillingVhsSet(1)
  \/ BillingLock(1)
  \/ BillingRead(1)
  \/ BillingSet(1)
  \/ RankingStart(2, 1, 1, "1a", [ok |-> TRUE, n |-> 0])
  \/ RankingCompSet(2)
  \/ RankingVisitGet(2)
  \/ RankingVisitSet(2)
  \/ RankingLock(2)
  \/ RankingRead(2)
  \/ RankingReturn(2)
  \/ \E playerID \in {1, 2} : PlayerStart(2, 1, 1, playerID)
  \/ PlayerLock(2)
  \/ PlayerRead(2)
  \/ \E p \in Procs : Finish(p)

SpecLock == InitLock /\ [][NextLock]_vars

\* slot p holds the lock file f
Holds(p, f) == flockHolder[f] = Some(p)

\* slot p has returned the error err
ReturnedError(p, err) ==
  /\ pc[p] = "done"
  /\ "err" \in DOMAIN Val(resp[p])
  /\ Val(resp[p]).err = err

\* C14: a request that is not being served, or whose handler has returned (on
\* success or with an error), holds no tenant lock.
C14_ReturnedHoldsNoLock ==
  \A p \in Procs : pc[p] \in {"idle", "done"} => \A f \in LockFiles : ~Holds(p, f)

\* a score upload has returned the error of its DELETE, which it ran under
\* the lock, and no lock is held
C14_Witness ==
  /\ ReturnedError(1, "error Delete player_score")
  /\ \A f \in LockFiles : flockHolder[f] = None

\* the steps of the handlers that read or write score rows
ScoreRowSteps == {"sc_delete", "sc_insert", "rk_read", "pl_read", "bl_read"}

\* the steps at which the handlers call flockByTenantID
LockSteps == {"sc_lock", "rk_lock", "pl_lock", "bl_lock"}

\* slot p leaves its lock step without the lock
LockFailed(p) ==
  /\ pc[p] \in LockSteps
  /\ pc'[p] # pc[p]
  /\ ~Holds(p, LockFilePath(loc[p].tenant))'

\* C15: a handler whose flockByTenantID fails returns an error (status 500)
\* at that step and leaves the score rows as they are, and a handler that is
\* at a step reading or writing score rows holds the lock of its tenant.
C15_LockFailureIsFatal ==
  /\ [](\A p \in Procs :
          pc[p] \in ScoreRowSteps => Holds(p, LockFilePath(loc[p].tenant)))
  /\ [][\A p \in Procs :
          LockFailed(p) =>
            /\ pc'[p] = "done"
            /\ Val(resp'[p]).status = 500
            /\ player_score' = player_score]_vars

\* a player-detail read has returned the error of flockByTenantID
C15_Witness == ReturnedError(2, "error flockByTenantID") /\ Val(resp[2]).op = "player"


(* ---------------------- the visitors of a report ----------------------- *)

\* the summary rows of the competition among the rows slot p has fetched
VisitRowsOf(p) == {x \in loc[p].vhs : x.competition_id = loc[p].comp.id}

\* the visit of the summary row r counts for the competition row comp
InWindow(r, comp) ==
  ~comp.finished_at.Valid \/ r.min_created_at <= comp.finished_at.Int64

\* slot p has put player k in the category
Classified(p, k, category) ==
  k \in DOMAIN loc[p].billingMap /\ loc[p].billingMap[k] = category

\* C16: in a computed report, with the competition row and the summary rows
\* the computation has fetched, a player with a summary row of the competition
\* is marked visitor exactly when the competition row has no finish timestamp
\* or the row's earliest visit is not after it (a score row then makes the
\* player "player", C3); with an earliest visit after the finish timestamp
\* and no score row the player has no category.
C16_VisitorInWindow ==
  \A p \in Procs :
    BillingComputed(p) =>
      \A r \in VisitRowsOf(p) :
        LET k == r.player_id
            scored == k \in HasScore(loc[p].tenant, BilledCompID(p))
        IN /\ InWindow(r, loc[p].comp) =>
                IF scored THEN Classified(p, k, "player")
                ELSE Classified(p, k, "visitor")
           /\ Classified(p, k, "visitor") => InWindow(r, loc[p].comp)
           /\ (~InWindow(r, loc[p].comp) /\ ~scored) => k \notin DOMAIN loc[p].billingMap

\* a report of a finished competition with a visitor whose earliest visit is
\* at the finish timestamp
C16_Witness ==
  \E p \in Procs :
    /\ BillingComputed(p)
    /\ loc[p].comp.finished_at.Valid
    /\ \E r \in VisitRowsOf(p) :
         /\ r.min_created_at = loc[p].comp.finished_at.Int64
         /\ Classified(p, r.player_id, "visitor")


(* ---------------------- reports of unknown competitions ---------------- *)

\* tenant 1 has competition "1a" (open, or finished at time 0), tenant 11 has
\* no competition
InitReport ==
  /\ curId = -1
  /\ idLog = <<>>
  /\ now = 1
  /\ player = InitPlayer
  /\ \E fin \in BillingFinishedAts :
       competition = [t \in Tenants |->
         IF t = 1 THEN {CompetitionRow(1, "1a", fin, 0)} ELSE {}]
  /\ player_score = [t \in Tenants |-> IF t = 1 THEN BillingScores ELSE {}]
  /\ visit_history = {r \in BillingVisits : r.tenant_id = 1}
  /\ playerCache = EmptyCache
  /\ competitionCache = EmptyCache
  /\ vhsCache = EmptyCache
  /\ scoredPlayerCache = EmptyCache
  /\ billingReportCache = EmptyCache
  /\ compFinishCache = EmptyCache
  /\ visitHistories = EmptyCache
  /\ flockHolder = [f \in LockFiles |-> None]
  /\ pc = [p \in Procs |-> "idle"]
  /\ loc = [p \in Procs |-> NoLoc]
  /\ resp = [p \in Procs |-> None]
  /\ tickers = 0
  /\ evicting = <<>>
  /\ flush = NoFlush
  /\ visits = NoVisits
  /\ faults = {}
  /\ id_generator = 0
  /\ dispenseUpdates = 0
  /\ initialData = [player |-> player, competition |-> competition,
                    player_score |-> player_score, visit_history |-> visit_history]

\* the competition ids billingReportByCompetition is called with: "a" and
\* "zz" are the ids of no competition
CallCompIDs == {"1a", "a", "zz"}

\* billingReportByCompetition(ctx, tenantDB, t, cid) called on its own
BillingReportByCompetition(p, t, cid) ==
  /\ pc[p] = "idle"
  /\ BillingAppend(p, [op |-> "billing", tenant |-> t, cs |-> <<cid>>, i |-> 1,
                       tbrs |-> <<>>, calls |-> <<>>])
  /\ UNCHANGED <<taskVars, curId, idLog, now, dbVars, cacheVars, visitHistories,
                 flockHolder>>

NextReport ==
  \/ \E p \in Procs, t \in Tenants, cid \in CallCompIDs :
       BillingReportByCompetition(p, t, cid)
  \/ \E p \in Procs : BillingReportGet(p)
  \/ \E p \in Procs : BillingComp(p)
  \/ \E p \in Procs : BillingCompSet(p)
  \/ \E p \in Procs : BillingVhs(p)
  \/ \E p \in Procs : BillingVhsSet(p)
  \/ \E p \in Procs : BillingLock(p)
  \/ \E p \in Procs : BillingRead(p)
  \/ \E p \in Procs : BillingSet(p)
  \/ \E p \in Procs : Finish(p)

SpecReport == InitReport /\ [][NextReport]_vars

\* no tenant has a competition with the id
NoSuchCompetition(cid) == \A t \in Tenants : SelectCompetition(t, cid) = {}

\* slot p runs or has run billingReportByCompetition for an id of no competition
CalledForUnknown(p) ==
  /\ loc[p].op = "billing"
  /\ loc[p].i <= Len(loc[p].cs)
  /\ NoSuchCompetition(BilledCompID(p))

\* C17: a call of billingReportByCompetition for the id of no competition
\* goes no further than retrieveCompetition, ends with an error and without
\* a report, and the billing report cache holds no entry under its key.
C17_UnknownCompetitionFails ==
  \A p \in Procs :
    CalledForUnknown(p) =>
      /\ pc[p] \in {"bl_report_get", "bl_comp", "done"}
      /\ pc[p] = "done" => Val(resp[p]).status = 500
      /\ loc[p].tbrs = <<>>
      /\ ~CacheHas(billingReportCache, BillingReportKey(loc[p].tenant, BilledCompID(p)))


(* ---------------------- the id counter across restarts ----------------- *)

\* dispenseUpdate after its tick:
\* adminDB.Exec("UPDATE id_generator SET id = ?, stub=?;", curId, "a")
DispenseUpdate ==
  /\ dispenseUpdates > 0
  /\ dispenseUpdates' = dispenseUpdates - 1
  /\ id_generator' = curId
  /\ UNCHANGED <<tickers, evicting, initialData, flush, visits, faults, curId, idLog,
                 now, dbVars, cacheVars, visitHistories, flockHolder, pc, loc, resp>>

\* the entry of idLog that marks a restart: persisted is the id the table
\* id_generator holds at the restart
RestartMark(persisted) == [n |-> -1, id |-> "", seen |-> Len(idLog), mark |-> persisted]
IsRestartMark(e) == "mark" \in DOMAIN e
Restarts == Cardinality({i \in 1..Len(idLog) : IsRestartMark(idLog[i])})

\* the process ends and starts again: the package variables have their
\* initial values (curId = -1, empty caches), the goroutines and the requests
\* in flight are gone and their locks released; the databases stay
ProcessRestart ==
  /\ Restarts < MaxRestarts
  /\ curId' = -1
  /\ idLog' = Append(idLog, RestartMark(id_generator))
  /\ playerCache' = EmptyCache
  /\ competitionCache' = EmptyCache
  /\ vhsCache' = EmptyCache
  /\ scoredPlayerCache' = EmptyCache
  /\ billingReportCache' = EmptyCache
  /\ compFinishCache' = EmptyCache
  /\ visitHistories' = EmptyCache
  /\ flockHolder' = [f \in LockFiles |-> None]
  /\ pc' = [p \in Procs |-> "idle"]
  /\ loc' = [p \in Procs |-> NoLoc]
  /\ resp' = [p \in Procs |-> None]
  /\ tickers' = 0
  /\ dispenseUpdates' = 0
  /\ evicting' = <<>>
  /\ flush' = NoFlush
  /\ UNCHANGED <<initialData, id_generator, visits, faults, now, dbVars>>

\* slot 1 serves the organizer of tenant 1, who adds competitions; slot 2 the
\* benchmarker, who initializes while no request is in flight; the process
\* restarts
NextRestart ==
  \/ CompetitionsAddStart(1, 1)
  \/ DispenseInc(1)
  \/ DispenseRead(1)
  \/ CompetitionsAddInsert(1)
  \/ Quiescent /\ InitializeHandler(2)
  \/ DispenseUpdate
  \/ ProcessRestart
  \/ \E p \in Procs : Finish(p)

SpecRestart == InitBase /\ [][NextRestart]_vars

\* C19: every id dispenseID returns after a restart is larger than the id the
\* table id_generator held at the restart.
C19_ResumesAbovePersisted ==
  \A i, j \in 1..Len(idLog) :
    (i < j /\ IsRestartMark(idLog[i]) /\ ~IsRestartMark(idLog[j])) =>
      idLog[j].n > idLog[i].mark


(* ---------------------- reports after the finish ----------------------- *)

\* tenant 1 has the open competitions "1a", with score rows, and "b"
InitFinish ==
  /\ curId = -1
  /\ idLog = <<>>
  /\ now = 1
  /\ player = InitPlayer
  /\ competition = InitCompetition
  /\ player_score = [t \in Tenants |-> IF t = 1 THEN BillingScores ELSE {}]
  /\ visit_history = BillingVisits
  /\ playerCache = EmptyCache
  /\ competitionCache = EmptyCache
  /\ vhsCache = EmptyCache
  /\ scoredPlayerCache = EmptyCache
  /\ billingReportCache = EmptyCache
  /\ compFinishCache = EmptyCache
  /\ visitHistories = EmptyCache
  /\ flockHolder = [f \in LockFiles |-> None]
  /\ pc = [p \in Procs |-> "idle"]
  /\ loc = [p \in Procs |-> NoLoc]
  /\ resp = [p \in Procs |-> None]
  /\ tickers = 0
  /\ evicting = <<>>
  /\ flush = NoFlush
  /\ visits = NoVisits
  /\ faults = {}
  /\ id_generator = 0
  /\ dispenseUpdates = 0
  /\ initialData = [player |-> player, competition |-> competition,
                    player_score |-> player_score, visit_history |-> visit_history]

\* a step of the handler slot p runs
HandlerStep(p) ==
  \/ BillingReportGet(p)
  \/ BillingComp(p)
  \/ BillingCompSet(p)
  \/ BillingVhs(p)
  \/ BillingVhsSet(p)
  \/ BillingLock(p)
  \/ BillingRead(p)
  \/ BillingSet(p)
  \/ FinishCompSet(p)
  \/ FinishUpdate(p)
  \/ FinishGet(p)
  \/ FinishSet(p)
  \/ FinishDelete(p)
  \/ Finish(p)

\* the organizer of tenant 1 reads billing and finishes "1a" on slot 1 and
\* finishes "b" on slot 2; the benchmarker initializes while no request is in
\* flight; the ticker runs updateCompetitionFinish
NextFinish ==
  \/ BillingStart(1, 1)
  \/ FinishStart(1, 1, "1a")
  \/ FinishStart(2, 1, "b")
  \/ \E p \in Procs : HandlerStep(p)
  \/ UpdateCompetitionFinish
  \/ UpdateCompetitionFinishDelete
  \/ \E p \in Procs : Quiescent /\ InitializeHandler(p)

\* the scheduler runs every goroutine that can take a step, and the ticker
\* fires every 2000 ms
FairFinish ==
  /\ \A p \in Procs : WF_vars(HandlerStep(p))
  /\ WF_vars(UpdateCompetitionFinish)
  /\ WF_vars(UpdateCompetitionFinishDelete)

SpecFinish == InitFinish /\ [][NextFinish]_vars /\ FairFinish

\* the cache holds, for competition cid of tenant t with scored players, a
\* report computed with the competition seen as open
StaleReportCached(t, cid) ==
  /\ HasScore(t, cid) # {}
  /\ CacheHas(billingReportCache, BillingReportKey(t, cid))
  /\ billingReportCache[BillingReportKey(t, cid)].CompetitionID = cid
  /\ billingReportCache[BillingReportKey(t, cid)].PlayerCount = 0

\* C20: once the tickers run, from some point on the cache holds no report
\* computed with the competition seen as open for a competition whose finish
\* handler has returned.
C20_EventuallyNoStaleReport ==
  <>[](tickers > 0 =>
         \A cid \in {"1a", "b"} : FinishReturned(1, cid) => ~StaleReportCached(1, cid))


(* ---------------------- score rows under the lock ---------------------- *)

\* the steps a handler takes between flockByTenantID and the deferred fl.Close()
LockHeldSteps ==
  {"sc_rows", "sc_delete", "sc_insert", "rk_read", "rk_return", "pl_read",
   "bl_read", "bl_set"}

\* slot p is between its flockByTenantID and its fl.Close() for tenant t
InCriticalSection(p, t) == pc[p] \in LockHeldSteps /\ loc[p].tenant = t

\* C21: a handler at a step that reads or writes score rows of a tenant holds
\* the lock file of that tenant, and no two handlers are between
\* flockByTenantID and fl.Close() for the same tenant at the same time.
C21_ScoreRowsUnderLock ==
  /\ \A p \in Procs :
       pc[p] \in ScoreRowSteps => Holds(p, LockFilePath(loc[p].tenant))
  /\ \A p, q \in Procs : \A t \in Tenants :
       (InCriticalSection(p, t) /\ InCriticalSection(q, t)) => p = q

\* an upload is between its DELETE and its INSERT while a ranking read of the
\* same tenant waits for the lock
C21_Witness ==
  /\ pc[1] = "sc_insert"
  /\ Holds(1, LockFilePath(1))
  /\ pc[2] = "rk_lock"
  /\ loc[2].tenant = 1


(* ---------------------- concurrent visit records ----------------------- *)

\* C22: with no flush and no reset, every visit event recorded so far is in the
\* visit buffer: no append of one ranking request is lost to another's.
C22_NoRecordLostToProducer ==
  \A e \in 1..visits.events :
    \E i \in 1..Len(VisitBuffer) : VisitBuffer[i].ev = e


(* ---------------------- the persisted id counter ----------------------- *)

\* the process keeps running: the organizer of tenant 1 adds competitions in
\* slot 1, the benchmarker initializes in slot 2, dispenseUpdate writes after
\* its tick
NextPersist ==
  \/ curId < MaxId /\ CompetitionsAddStart(1, 1)
  \/ DispenseInc(1)
  \/ DispenseRead(1)
  \/ CompetitionsAddInsert(1)
  \/ Quiescent /\ InitializeHandler(2)
  \/ DispenseUpdate
  \/ \E p \in Procs : Finish(p)

\* a started request runs to its end, and the ticker of a started
\* dispenseUpdate goroutine fires
FairPersist ==
  /\ WF_vars(DispenseInc(1))
  /\ WF_vars(DispenseRead(1))
  /\ WF_vars(CompetitionsAddInsert(1))
  /\ WF_vars(DispenseUpdate)

SpecPersist == InitBase /\ [][NextPersist]_vars /\ FairPersist

\* dispenseID has returned the id of counter value n
Issued(n) == \E i \in 1..Len(idLog) : idLog[i].n = n

\* C23: while the process keeps running, every counter value dispenseID has
\* issued is eventually covered by the id the table id_generator holds.
C23_IssuedIdEventuallyPersisted ==
  \A n \in 0..MaxId : Issued(n) ~> (id_generator >= n)


(* ---------------------- the reports of other competitions -------------- *)

\* the billing report cache holds a report of competition cid of tenant t
\* under the key of (t, cid)
CachedReportOf(t, cid) ==
  /\ SelectCompetition(t, cid) # {}
  /\ CacheHas(billingReportCache, BillingReportKey(t, cid))
  /\ billingReportCache[BillingReportKey(t, cid)].CompetitionID = cid

\* competition cid of tenant t has a finish timestamp
MarkedFinished(t, cid) == \E r \in SelectCompetition(t, cid) : r.finished_at.Valid

\* a step of competitionFinishHandler or of updateCompetitionFinish
FinishOrEvictionStep ==
  \/ evicting' # evicting
  \/ \E p \in Procs : loc[p].op = "finish" /\ pc'[p] # pc[p]

\* C24: a step of competitionFinishHandler or of the eviction task removes
\* the cached report of a pair (tenant, competition) only when that
\* competition has been marked finished; the cached reports of every other
\* pair stay.
C24_FinishEvictsOnlyItsPair ==
  [][\A t \in Tenants : \A cid \in CallCompIDs :
       (FinishOrEvictionStep /\ CachedReportOf(t, cid) /\ ~CachedReportOf(t, cid)') =>
         MarkedFinished(t, cid)]_vars

\* C25: a report returned by billingReportByCompetition for a pair (tenant,
\* competition) is the report of that competition: no two pairs share an
\* entry of the billing report cache.
C25_ReportOfOwnPair ==
  \A p \in Procs : \A j \in ReturnedReports(p) :
    loc[p].tbrs[j].CompetitionID = loc[p].calls[j].cid


(* ---------------------- playerDisqualifiedHandler ---------------------- *)

\* POST /api/organizer/player/:player_id/disqualified:
\* UPDATE player SET is_disqualified = ?, updated_at = ? WHERE id = ?
PlayerDisqualifiedUpdate(p, t, playerID) ==
  /\ pc[p] = "idle"
  /\ player' = [player EXCEPT ![t] =
        {IF r.id = playerID THEN [r EXCEPT !.is_disqualified = TRUE] ELSE r : r \in @}]
  /\ loc' = [loc EXCEPT ![p] = [op |-> "disqualified", tenant |-> t, id |-> playerID]]
  /\ pc' = [pc EXCEPT ![p] = "dq_retrieve"]
  /\ UNCHANGED <<taskVars, curId, idLog, now, competition, player_score, visit_history,
                 cacheVars, visitHistories, flockHolder, resp>>

\* p, err := retrievePlayer(ctx, tenantDB, playerID) and the response
PlayerDisqualifiedRetrieve(p) ==
  /\ pc[p] = "dq_retrieve"
  /\ LET pl == RetrievePlayer(playerCache, loc[p].tenant, loc[p].id)
     IN IF pl = None
        THEN /\ Return(p, [status |-> 404, op |-> "disqualified"])
             /\ UNCHANGED playerCache
        ELSE /\ playerCache' = CacheSet(playerCache, loc[p].id, Val(pl))
             /\ Return(p, [status |-> 200, op |-> "disqualified",
                           Player |-> [ID |-> Val(pl).id,
                                       IsDisqualified |-> Val(pl).is_disqualified]])
  /\ UNCHANGED <<taskVars, curId, idLog, now, dbVars, competitionCache, vhsCache,
                 scoredPlayerCache, billingReportCache, compFinishCache,
                 visitHistories, flockHolder, loc>>

\* the player ids of the requests of tenant 1: players 1 and 2, and the id of
\* no player
DisqualifiedIDs == {1, 2, 9}

\* slot 1 serves the organizer of tenant 1, who disqualifies players; slot 2
\* serves players 1 and 2, who read player details
NextDisqualified ==
  \/ \E id \in DisqualifiedIDs : PlayerDisqualifiedUpdate(1, 1, id)
  \/ PlayerDisqualifiedRetrieve(1)
  \/ \E viewer \in {1, 2}, id \in Players : PlayerStart(2, 1, viewer, id)
  \/ PlayerLock(2)
  \/ PlayerRead(2)
  \/ \E p \in Procs : Finish(p)

SpecDisqualified == InitBase /\ [][NextDisqualified]_vars

\* playerDisqualifiedHandler has completed for player id of tenant t
DisqualifiedReturned(t, id) ==
  /\ \E r \in SelectPlayer(t, id) : r.is_disqualified
  /\ \A q \in Procs :
       ~(loc[q].op = "disqualified" /\ pc[q] # "done" /\ loc[q].id = id)

\* C26: the response of playerDisqualifiedHandler reports the player as
\* disqualified, and authorizePlayer rejects with 403 every request a player
\* sends after playerDisqualifiedHandler has completed for the player.
C26_DisqualifiedReadFresh ==
  /\ [](\A p \in Procs :
          (pc[p] = "done" /\ Val(resp[p]).op = "disqualified"
             /\ Val(resp[p]).status = 200) =>
            Val(resp[p]).Player.IsDisqualified)
  /\ [][\A viewer \in {1, 2} : \A id \in Players :
          (DisqualifiedReturned(1, viewer) /\ PlayerStart(2, 1, viewer, id)) =>
            (pc'[2] = "done" /\ Val(resp'[2]).status = 403)]_vars


(* ---------------------- the finish timestamp --------------------------- *)

\* C27: a finish timestamp, once set, is never cleared or changed by a
\* request (initializeHandler, which restores the initial data, aside).
C27_FinishedAtNeverChanges ==
  [][tickers' = tickers =>
       \A t \in Tenants : \A r \in competition[t] :
         r.finished_at.Valid =>
           \E r2 \in competition'[t] : r2.id = r.id /\ r2.finished_at = r.finished_at]_vars


(* ---------------------- uploads and the finish ------------------------- *)

\* the CSV bodies of the organizer: well-formed ones, and ones with a row of
\* an unknown player, of a score that is no integer, of one column
ValidationCsvs ==
  {<<CsvRow(2, 60)>>,
   <<CsvRow(1, 50), CsvRow(9, 50)>>,
   <<CsvRow(1, 50), CsvRowNotInteger(2)>>,
   <<CsvRowOneColumn(1), CsvRow(2, 60)>>}

\* slot 1 serves the organizer's score uploads for competition "1a" of
\* tenant 1, slot 2 the organizer's finish of it
NextUpload ==
  \/ \E csv \in ValidationCsvs : ScoreStart(1, 1, "1a", TRUE, csv)
  \/ ScoreCompSet(1)
  \/ ScoreLock(1)
  \/ ScoreRows(1)
  \/ ScoreDelete(1)
  \/ ScoreInsert(1)
  \/ FinishStart(2, 1, "1a")
  \/ FinishCompSet(2)
  \/ FinishUpdate(2)
  \/ FinishGet(2)
  \/ FinishSet(2)
  \/ FinishDelete(2)
  \/ \E p \in Procs : Finish(p)

SpecUpload == InitFinish /\ [][NextUpload]_vars

\* C28: once competitionFinishHandler has returned for a competition, no step
\* changes the set of score rows of the competition.
C28_ScoresFrozenAfterFinish ==
  [][\A cid \in {"1a", "b"} :
       FinishReturned(1, cid) =>
         SelectPlayerScore(1, cid)' = SelectPlayerScore(1, cid)]_vars



\* slot p serves a score upload whose CSV has a data row the loop rejects
InvalidUpload(p) ==
  /\ loc[p].op = "score"
  /\ \E i \in 1..Len(loc[p].csv) :
       \/ RowBad(loc[p].csv[i]) # "none"
       \/ SelectPlayer(loc[p].tenant, loc[p].csv[i].player_id) = {}

\* C30: a score upload whose CSV has a row of an unknown player, of a score
\* that is no integer or of another number of columns than two is answered
\* with an error, and no step of it changes the stored score rows.
C30_InvalidUploadChangesNothing ==
  /\ [](\A p \in Procs :
          (pc[p] = "done" /\ InvalidUpload(p)) => Val(resp[p]).status \in {400, 500})
  /\ [][\A p \in Procs :
          (InvalidUpload(p) /\ pc'[p] # pc[p]) => player_score' = player_score]_vars

\* the upload was rejected at its second row, after dispenseID ran for the
\* first, and the competition has the score rows it had
C30_Witness ==
  /\ pc[1] = "done"
  /\ loc[1].op = "score"
  /\ loc[1].csv = <<CsvRow(1, 50), CsvRowNotInteger(2)>>
  /\ Val(resp[1]).status = 400
  /\ curId = 0
  /\ SelectPlayerScore(1, "1a") = BillingScores



(* ---------------------- the competition cache after the finish --------- *)

\* a retrieveCompetition for the id is between its SELECT and its
\* competitionCache.Set
RetrievingCompetition(cid) ==
  \E q \in Procs :
    /\ pc[q] \in {"bl_comp_set", "fin_comp_set", "sc_comp_set", "rk_comp_set"}
    /\ loc[q].comp.id = cid

\* C29: once competitionFinishHandler has returned for a competition and no
\* retrieveCompetition for it is still running, competitionCache holds no row
\* of it without finish timestamp, so every later retrieveCompetition returns
\* the finished row.
C29_NoUnfinishedRowCached ==
  \A cid \in {"1a"} :
    (FinishReturned(1, cid) /\ ~RetrievingCompetition(cid)
       /\ CacheHas(competitionCache, cid)) =>
      competitionCache[cid].finished_at.Valid




(* ---------------------- the rows of an upload -------------------------- *)

\* the process has started on data with score rows in both competitions of
\* tenant 1 and in tenant 11
InitScore ==
  /\ curId = -1
  /\ idLog = <<>>
  /\ now = 1
  /\ player = InitPlayer
  /\ competition = InitCompetition
  /\ player_score = [t \in Tenants |->
       IF t = 1
       THEN BillingScores \cup PlayerScoreRows(1, "b", <<CsvRow(3, 70)>>)
       ELSE PlayerScoreRows(t, "a", <<CsvRow(1000, 10)>>)]
  /\ visit_history = {}
  /\ playerCache = EmptyCache
  /\ competitionCache = EmptyCache
  /\ vhsCache = EmptyCache
  /\ scoredPlayerCache = EmptyCache
  /\ billingReportCache = EmptyCache
  /\ compFinishCache = EmptyCache
  /\ visitHistories = EmptyCache
  /\ flockHolder = [f \in LockFiles |-> None]
  /\ pc = [p \in Procs |-> "idle"]
  /\ loc = [p \in Procs |-> NoLoc]
  /\ resp = [p \in Procs |-> None]
  /\ tickers = 0
  /\ evicting = <<>>
  /\ flush = NoFlush
  /\ visits = NoVisits
  /\ faults = {}
  /\ id_generator = 0
  /\ dispenseUpdates = 0
  /\ initialData = [player |-> player, competition |-> competition,
                    player_score |-> player_score, visit_history |-> visit_history]

\* the organizer of tenant 1 uploads scores for its two competitions, over
\* both slots
NextScore ==
  \/ \E p \in Procs, cid \in {"1a", "b"}, csv \in UploadCsvs :
       ScoreStart(p, 1, cid, TRUE, csv)
  \/ \E p \in Procs : ScoreCompSet(p)
  \/ \E p \in Procs : ScoreLock(p)
  \/ \E p \in Procs : ScoreRows(p)
  \/ \E p \in Procs : ScoreDelete(p)
  \/ \E p \in Procs : ScoreInsert(p)
  \/ \E p \in Procs : Finish(p)

SpecScore == InitScore /\ [][NextScore]_vars

\* the score rows of the database that are not rows of (t, cid)
OtherScores(t, cid) ==
  [u \in Tenants |-> IF u = t THEN player_score[u] \ SelectPlayerScore(t, cid)
                     ELSE player_score[u]]

\* slot p answers its score upload with 200 in this step
UploadSucceeds(p) ==
  /\ pc[p] = "sc_insert"
  /\ pc'[p] = "done"
  /\ Val(resp'[p]).status = 200

\* C31: when a score upload of n data rows for (tenant, competition) succeeds,
\* the stored score rows of the pair are exactly the n rows, the i-th with row
\* number i, the response reports n rows, and no step of the upload changes
\* the score rows of another competition or tenant.
C31_UploadReplacesRows ==
  [][\A p \in Procs : \A t \in Tenants : \A cid \in {"1a", "b"} :
       (loc[p].op = "score" /\ loc[p].tenant = t /\ loc[p].cid = cid) =>
         /\ UploadSucceeds(p) =>
              LET csv == loc[p].csv
              IN /\ SelectPlayerScore(t, cid)' =
                      {PlayerScoreRow(t, csv[i].player_id, cid, csv[i].score, i) :
                         i \in 1..Len(csv)}
                 /\ Cardinality(SelectPlayerScore(t, cid)') = Len(csv)
                 /\ Val(resp'[p]).Rows = Len(csv)
         /\ pc'[p] # pc[p] => OtherScores(t, cid)' = OtherScores(t, cid)]_vars

\* the two-row upload for "1a" has replaced the three rows of the initial
\* data, and the rows of "b" and of tenant 11 are the initial ones
C31_Witness ==
  /\ pc[1] = "done"
  /\ loc[1].op = "score"
  /\ loc[1].cid = "1a"
  /\ Val(resp[1]).status = 200
  /\ Val(resp[1]).Rows = 2
  /\ SelectPlayerScore(1, "1a") =
       {PlayerScoreRow(1, 2, "1a", 80, 1), PlayerScoreRow(1, 1, "1a", 80, 2)}
  /\ SelectPlayerScore(1, "b") # {}
  /\ player_score[11] # {}




(* ---------------------- the background tasks --------------------------- *)

\* C32: at most one ticker of delayedInsertVisitHistory, at most one ticker
\* of updateCompetitionFinish and at most one dispenseUpdate goroutine are
\* active.
C32_TasksAreSingletons ==
  /\ tickers <= 1
  /\ dispenseUpdates <= 1




(* ---------------------- a flush whose INSERT fails --------------------- *)

\* ranking requests, initializeHandler and the flush ticker, while calls can
\* fail
SpecFlush == InitLock /\ [][NextVisit]_vars

\* C33: when a call of delayedInsertVisitHistory whose INSERT failed returns,
\* no request is answered by the step, the buffer is empty, and the ticker
\* can fire again.
C33_FailedFlushIsSwallowed ==
  [][(FlushCompletes /\ flush.err) =>
       /\ pc' = pc
       /\ resp' = resp
       /\ visitHistories'[0] = <<>>
       /\ tickers' > 0
       /\ flush'.pc = "idle"]_vars

\* a flush has failed to persist two events and has emptied the buffer
C33_Witness ==
  /\ flush.pc = "idle"
  /\ flush.err
  /\ visits.events = 2
  /\ visits.batches = <<>>
  /\ visit_history = BillingVisits
  /\ VisitBuffer = <<>>




(* ---------------------- tenantsBillingHandler -------------------------- *)

\* the ids of the rows of the table tenant of the admin DB; the tenants
\* outside Tenants have a tenant DB without competitions
NumTenants == 12
TenantTable == 1..NumTenants

\* SELECT * FROM tenant ORDER BY id DESC
TenantsOrderByIdDesc == [i \in 1..NumTenants |-> NumTenants + 1 - i]

\* SELECT * FROM competition WHERE tenant_id=?  on the tenant's DB
CompetitionsOf(t) == IF t \in Tenants THEN competition[t] ELSE {}

\* the rows of a SELECT without ORDER BY, in the orders they may come in
InAnyOrder(rows) ==
  {f \in [1..Cardinality(rows) -> rows] : \A i, j \in DOMAIN f : i # j => f[i] # f[j]}

\* if beforeID != 0 && beforeID <= t.ID { continue }
Skipped(before, id) == before # 0 /\ before <= id

\* the position of the first row of ts from position k on that the loop does
\* not skip, Len(ts) + 1 when it skips them all
NextTenant(ts, k, before) ==
  LET kept == {j \in k..Len(ts) : ~Skipped(before, ts[j])}
  IN IF kept = {} THEN Len(ts) + 1 ELSE CHOOSE j \in kept : \A x \in kept : j <= x

\* if len(tenantBillings) >= 10 { break }
TenantsPageSize == 10

\* tb.BillingYen after the loop over the reports
RECURSIVE SumBillingYen(_)
SumBillingYen(tbrs) ==
  IF tbrs = <<>> THEN 0 ELSE Head(tbrs).BillingYen + SumBillingYen(Tail(tbrs))

\* GET /api/admin/tenants/billing?before=: the parse of before ([ok |-> FALSE]
\* when strconv.ParseInt fails, n = 0 when the parameter is empty) and the
\* SELECT of the tenants
TenantsBillingStart(p, before) ==
  /\ pc[p] = "idle"
  /\ IF ~before.ok
     THEN /\ Return(p, [status |-> 400, op |-> "tenants_billing"])
          /\ UNCHANGED loc
     ELSE /\ loc' = [loc EXCEPT ![p] =
               [op |-> "tenants_billing", before |-> before.n,
                ts |-> TenantsOrderByIdDesc,
                k |-> NextTenant(TenantsOrderByIdDesc, 1, before.n), tbs |-> <<>>]]
          /\ pc' = [pc EXCEPT ![p] = "tb_tenant"]
          /\ UNCHANGED resp
  /\ UNCHANGED <<taskVars, curId, idLog, now, dbVars, cacheVars, visitHistories,
                 flockHolder>>

\* the next tenant the loop does not skip: the SELECT of its competitions;
\* the end of the loop when there is none
TenantsBillingTenant(p) ==
  /\ pc[p] = "tb_tenant"
  /\ IF loc[p].k > Len(loc[p].ts)
     THEN /\ pc' = [pc EXCEPT ![p] = "tb_reset"]
          /\ UNCHANGED <<loc, resp>>
     ELSE \E cs \in InAnyOrder(CompetitionsOf(loc[p].ts[loc[p].k])) :
            BillingAppend(p, TenantsLoopVars(loc[p]) @@
                             [op |-> "tenants_billing", tenant |-> loc[p].ts[loc[p].k],
                              cs |-> [i \in DOMAIN cs |-> cs[i].id], i |-> 1,
                              tbrs |-> <<>>, calls |-> <<>>])
  /\ UNCHANGED <<taskVars, curId, idLog, now, dbVars, cacheVars, visitHistories,
                 flockHolder>>

\* tenantBillings = append(tenantBillings, tb), and the break after the
\* tenth; reports is history: the reports tb.BillingYen was summed from
TenantsBillingAppend(p) ==
  /\ pc[p] = "tb_append"
  /\ LET tb == [ID |-> Itoa(loc[p].tenant), BillingYen |-> SumBillingYen(loc[p].tbrs),
                reports |-> loc[p].tbrs]
         tbs == Append(loc[p].tbs, tb)
     IN IF Len(tbs) >= TenantsPageSize
        THEN /\ loc' = [loc EXCEPT ![p].tbs = tbs]
             /\ pc' = [pc EXCEPT ![p] = "tb_reset"]
        ELSE /\ loc' = [loc EXCEPT ![p].tbs = tbs,
                                   ![p].k = NextTenant(loc[p].ts, loc[p].k + 1,
                                                       loc[p].before)]
             /\ pc' = [pc EXCEPT ![p] = "tb_tenant"]
  /\ UNCHANGED <<taskVars, curId, idLog, now, dbVars, cacheVars, visitHistories,
                 flockHolder, resp>>

\* vhsCache.Reset() and the response
TenantsBillingReset(p) ==
  /\ pc[p] = "tb_reset"
  /\ vhsCache' = EmptyCache
  /\ Return(p, [status |-> 200, op |-> "tenants_billing", Tenants |-> loc[p].tbs])
  /\ UNCHANGED <<taskVars, curId, idLog, now, dbVars, playerCache, competitionCache,
                 scoredPlayerCache, billingReportCache, compFinishCache,
                 visitHistories, flockHolder, loc>>

\* a step of tenantsBillingHandler in slot p
TenantsBillingStep(p) ==
  \/ TenantsBillingTenant(p)
  \/ TenantsBillingAppend(p)
  \/ TenantsBillingReset(p)
  \/ BillingReportGet(p)
  \/ BillingComp(p)
  \/ BillingCompSet(p)
  \/ BillingVhs(p)
  \/ BillingVhsSet(p)
  \/ BillingLock(p)
  \/ BillingRead(p)
  \/ BillingSet(p)
  \/ Finish(p)

\* the values of the query parameter before: none, a number, no number
TenantsBefores ==
  {[ok |-> TRUE, n |-> 0], [ok |-> TRUE, n |-> 3], [ok |-> TRUE, n |-> 12],
   [ok |-> FALSE, n |-> 0]}

\* the admin reads the billing of the tenants, one request after the other
NextTenants ==
  \/ \E before \in TenantsBefores : TenantsBillingStart(1, before)
  \/ TenantsBillingStep(1)

SpecTenants == InitBilling /\ [][NextTenants]_vars



\* the tenant a returned TenantWithBilling is of
TenantOf(tb) == CHOOSE t \in TenantTable : Itoa(t) = tb.ID

\* the tenants a request with the parsed before asks for
Qualifying(before) == {t \in TenantTable : before = 0 \/ t < before}

\* the response lists at most ten tenants, in strictly descending id, all
\* below before, and leaves out only tenants below all ten
IsTenantsPage(tbs, before) ==
  LET ids == {TenantOf(tbs[i]) : i \in 1..Len(tbs)}
  IN /\ Len(tbs) <= 10
     /\ \A i, j \in 1..Len(tbs) : i < j => TenantOf(tbs[i]) > TenantOf(tbs[j])
     /\ ids \subseteq Qualifying(before)
     /\ \A t \in Qualifying(before) \ ids :
          Len(tbs) = 10 /\ \A u \in ids : t < u

\* tb sums the BillingYen of one report for each competition of its tenant
SumsOwnReports(tb) ==
  /\ Len(tb.reports) = Cardinality(CompetitionsOf(TenantOf(tb)))
  /\ {tb.reports[i].CompetitionID : i \in 1..Len(tb.reports)} =
       {c.id : c \in CompetitionsOf(TenantOf(tb))}
  /\ tb.BillingYen = SumBillingYen(tb.reports)

\* C38: a 200 response of tenantsBillingHandler lists at most 10 tenants in
\* strictly descending id, all below before when before is not 0, skipping
\* none of the qualifying tenants with the largest ids, and the billing of
\* each is the sum of BillingYen over the reports of its competitions.
C38_TenantsBillingPage ==
  \A p \in Procs :
    (pc[p] = "done" /\ Val(resp[p]).op = "tenants_billing"
       /\ Val(resp[p]).status = 200) =>
      /\ IsTenantsPage(Val(resp[p]).Tenants, loc[p].before)
      /\ \A i \in 1..Len(Val(resp[p]).Tenants) : SumsOwnReports(Val(resp[p]).Tenants[i])




(* ---------------------- the visit summary cache ------------------------ *)

\* a step of billingHandler in slot p
BillingStep(p) ==
  \/ BillingReportGet(p)
  \/ BillingComp(p)
  \/ BillingCompSet(p)
  \/ BillingVhs(p)
  \/ BillingVhsSet(p)
  \/ BillingLock(p)
  \/ BillingRead(p)
  \/ BillingSet(p)
  \/ Finish(p)

\* the admin reads the billing of the tenants below 3 in slot 1, the
\* organizer of tenant 1 reads its billing in slot 2, the benchmarker
\* initializes while no request is in flight
NextSummary ==
  \/ TenantsBillingStart(1, [ok |-> TRUE, n |-> 3])
  \/ TenantsBillingStep(1)
  \/ BillingStart(2, 1)
  \/ BillingStep(2)
  \/ Quiescent /\ InitializeHandler(2)

SpecSummary == InitBilling /\ [][NextSummary]_vars

\* C37: once the visit summary of a tenant is in vhsCache, no step other
\* than one of initializeHandler removes it.
C37_SummaryKeptUntilReset ==
  [][\A t \in Tenants :
       (CacheHas(vhsCache, t) /\ ~CacheHas(vhsCache', t)) => tickers' # tickers]_vars




(* ------------------- the failure of dispenseID ------------------------- *)

\* the id was returned by a call of dispenseID that found curId == -1: its
\* adminDB.Get could not read the persisted id (LoadedId), and it is the
\* call that moved curId off -1
IssuedOnColdStart(e) == e.n = IncrementedId(LoadedId(-1, 0))

\* C36: a call of dispenseID that cannot read the persisted id on a cold
\* start fails and issues no id.
C36_ColdStartFailureIssuesNoId ==
  \A i \in 1..Len(idLog) : ~IssuedOnColdStart(idLog[i])




(* ---------------------- the visit event of a ranking ------------------- *)

\* players of tenant 1 read rankings in both slots: in slot 1 the players 1
\* and 2 and a player the tenant does not have, of a competition the tenant
\* has and of one it does not have; in slot 2 player 3, and the organizer
\* disqualifies player 2
NextRecord ==
  \/ \E viewer \in {1, 2, 9}, cid \in RequestCompIDs :
       RankingStart(1, 1, viewer, cid, [ok |-> TRUE, n |-> 0])
  \/ RankingStart(2, 1, 3, "1a", [ok |-> TRUE, n |-> 0])
  \/ \E p \in Procs : RankingCompSet(p)
  \/ \E p \in Procs : RankingVisitGet(p)
  \/ \E p \in Procs : RankingVisitSet(p)
  \/ \E p \in Procs : RankingLock(p)
  \/ \E p \in Procs : RankingRead(p)
  \/ \E p \in Procs : RankingReturn(p)
  \/ PlayerDisqualifiedUpdate(2, 1, 2)
  \/ PlayerDisqualifiedRetrieve(2)
  \/ \E p \in Procs : Finish(p)

SpecRecord == InitBase /\ [][NextRecord]_vars

\* the ranking request of slot p is rejected in this step: the player is
\* unknown (401) or disqualified (403) or the competition is missing (404)
RankingRejected(p) ==
  /\ pc[p] = "idle"
  /\ resp'[p] # None
  /\ Val(resp'[p]).op = "ranking"
  /\ Val(resp'[p]).status \in {401, 403, 404}

\* the ranking request of slot p, which has passed the checks, stores the
\* visit buffer in this step
RankingRecords(p) == pc[p] = "rk_visit_set" /\ pc'[p] # "rk_visit_set"

\* buf is the buffer old with one more event, of player pid for the
\* competition cid of tenant t
OneEventAppended(old, buf, pid, t, cid) ==
  /\ Len(buf) = Len(old) + 1
  /\ \A i \in 1..Len(old) : buf[i] = old[i]
  /\ buf[Len(buf)].player_id = pid
  /\ buf[Len(buf)].tenant_id = t
  /\ buf[Len(buf)].competition_id = cid

\* C39: a ranking request that is rejected leaves the visit buffer unchanged,
\* and one that passes the checks appends exactly one event to the buffer,
\* carrying its player, tenant and competition.
C39_OneVisitEventPerAuthorizedRanking ==
  [][\A p \in Procs :
       /\ RankingRejected(p) => visitHistories' = visitHistories
       /\ RankingRecords(p) =>
            \A pid \in {1, 2, 3} : \A cid \in RequestCompIDs :
              (loc[p].viewer = pid /\ loc[p].cid = cid) =>
                OneEventAppended(VisitBuffer, VisitBuffer', pid, 1, cid)]_vars




(* ---------------------- waiting for the tenant lock -------------------- *)

\* the statements on the databases succeed
InitAcquire == InitLock /\ "db" \notin faults

\* slot 1 serves score uploads of the organizer of tenant 1 and player
\* details of its player 1, slot 2 the billing of the organizers of both
\* tenants; an upload starts while the counter has an id left for its row
NextAcquire ==
  \/ curId < MaxId /\ ScoreStart(1, 1, "1a", TRUE, <<CsvRow(1, 50)>>)
  \/ ScoreCompSet(1)
  \/ ScoreLock(1)
  \/ ScoreRows(1)
  \/ ScoreDelete(1)
  \/ ScoreInsert(1)
  \/ PlayerStart(1, 1, 1, 1)
  \/ PlayerLock(1)
  \/ PlayerRead(1)
  \/ \E t \in Tenants : BillingStart(2, t)
  \/ BillingStep(2)
  \/ Finish(1)

\* a step of slot 1 that waits for nothing
Slot1Step ==
  ScoreCompSet(1) \/ ScoreRows(1) \/ ScoreDelete(1) \/ ScoreInsert(1) \/ PlayerRead(1)
    \/ Finish(1)

\* a step of slot 2 that waits for nothing
Slot2Step ==
  BillingReportGet(2) \/ BillingComp(2) \/ BillingCompSet(2) \/ BillingVhs(2)
    \/ BillingVhsSet(2) \/ BillingRead(2) \/ BillingSet(2) \/ Finish(2)

\* every handler is a goroutine the scheduler keeps running, and a handler
\* blocked in fl.Lock() is woken when the lock file is unlocked and is not
\* overtaken forever
FairAcquire ==
  /\ WF_vars(Slot1Step)
  /\ WF_vars(Slot2Step)
  /\ SF_vars(ScoreLock(1) \/ PlayerLock(1))
  /\ SF_vars(BillingLock(2))

SpecAcquire == InitAcquire /\ [][NextAcquire]_vars /\ FairAcquire

\* slot p holds a lock file
HoldsLock(p) == \E f \in LockFiles : Holds(p, f)

\* C35: a handler that calls flockByTenantID holds no lock; every handler
\* that holds a lock releases it; every handler that calls flockByTenantID
\* gets the lock or the error of the call; every request is answered.
C35_LockWaitsEnd ==
  /\ [](\A p \in Procs : pc[p] \in LockSteps => ~HoldsLock(p))
  /\ \A p \in Procs : HoldsLock(p) ~> ~HoldsLock(p)
  /\ \A p \in Procs :
       pc[p] \in LockSteps ~> (HoldsLock(p) \/ ReturnedError(p, "error flockByTenantID"))
  /\ \A p \in Procs : (pc[p] # "idle") ~> (pc[p] = "idle")

\* the billing of tenant 1 waits for the lock of its second report while a
\* score upload of the tenant holds it
C35_Witness ==
  /\ pc[2] = "bl_lock"
  /\ loc[2].tenant = 1
  /\ loc[2].i = 2
  /\ pc[1] = "sc_insert"
  /\ Holds(1, LockFilePath(1))




(* ---------------------- visits flushed after the finish ---------------- *)

\* a step of competitionRankingHandler in slot p
RankingStep(p) ==
  \/ RankingCompSet(p)
  \/ RankingVisitGet(p)
  \/ RankingVisitSet(p)
  \/ RankingLock(p)
  \/ RankingRead(p)
  \/ RankingReturn(p)
  \/ Finish(p)

\* a step of competitionFinishHandler in slot p
FinishStep(p) ==
  \/ FinishCompSet(p)
  \/ FinishUpdate(p)
  \/ FinishGet(p)
  \/ FinishSet(p)
  \/ FinishDelete(p)

\* a step of delayedInsertVisitHistory
DelayedInsertVisitHistory ==
  \/ DelayedInsertVisitHistoryGet
  \/ DelayedInsertVisitHistoryInsert
  \/ DelayedInsertVisitHistorySet

\* slot 1 serves one request after the other: player 3 of tenant 1, who has
\* no score, reads the ranking of "b", the organizer of tenant 1 finishes "b"
\* and reads the billing; the benchmarker initializes once, before the first
\* request; the tickers run
NextEventual ==
  \/ RankingStart(1, 1, 3, "b", [ok |-> TRUE, n |-> 0])
  \/ RankingStep(1)
  \/ FinishStart(1, 1, "b")
  \/ FinishStep(1)
  \/ BillingStart(1, 1)
  \/ BillingStep(1)
  \/ tickers = 0 /\ Quiescent /\ InitializeHandler(2)
  \/ Finish(2)
  \/ DelayedInsertVisitHistory
  \/ UpdateCompetitionFinish
  \/ UpdateCompetitionFinishDelete

\* the scheduler runs every goroutine that can take a step, and the tickers
\* fire
FairEventual ==
  /\ WF_vars(RankingStep(1) \/ FinishStep(1) \/ BillingStep(1))
  /\ WF_vars(Finish(2))
  /\ WF_vars(DelayedInsertVisitHistory)
  /\ WF_vars(UpdateCompetitionFinish)
  /\ WF_vars(UpdateCompetitionFinishDelete)

SpecEventual == InitFinish /\ [][NextEventual]_vars /\ FairEventual

\* the players without a score in competition cid of tenant t that
\* visit_history holds with a visit not after the competition's finish
FlushedVisitors(t, cid) ==
  {r.player_id :
     r \in {x \in visit_history :
              /\ x.tenant_id = t
              /\ x.competition_id = cid
              /\ \E c \in SelectCompetition(t, cid) :
                   c.finished_at.Valid /\ x.created_at <= c.finished_at.Int64}}
    \ HasScore(t, cid)

\* C34: from some point on, the report billingReportByCompetition returns
\* from its cache for a finished competition counts as visitors the players
\* without a score whose visits up to the finish visit_history holds.
C34_FlushedVisitsEventuallyBilled ==
  <>[](\A cid \in {"1a", "b"} :
         (FinishReturned(1, cid) /\ CachedReportOf(1, cid)) =>
           billingReportCache[BillingReportKey(1, cid)].VisitorCount
             = Cardinality(FlushedVisitors(1, cid)))

=============================================================================
